---- MODULE Spec2Model ----
(***************************************************************************)
(* Model of the acquisition-and-alignment core of piccolo:                 *)
(*   - CameraCapture (src/src/camera.py): one frame slot, its lock, the     *)
(*     acquisition threads, start()/stop() and the two kinds of reader;     *)
(*   - StereoAligner (src/src/stereo_align.py) and the main loop of         *)
(*     PiccoloApp (src/src/app.py) that drives it.                          *)
(* SpecCam is the camera's state machine, SpecApp the main loop's with all  *)
(* its inputs, SpecAppLong the main loop's over runs of many updates.       *)
(***************************************************************************)
EXTENDS Integers, Sequences, FiniteSets, TLC

\* ------------------------------------------------------------------ bounds
\* start() calls that get as far as creating a thread (one thread id each)
MaxStarts == 2
\* frames the device delivers in one run
MaxFrames == 2
\* last value of the monotonic clock, in ticks of half a second
MaxTime == 5
\* update() calls between two resets of the update counter
MaxUpdates == 6
\* update() calls that produce an estimate, per run
MaxApplied == 2
\* actions one poll of the input handler returns together
MaxPolled == 2
\* update() calls between two resets of the update counter, in the long runs
MaxLongUpdates == 21
\* last value of the clock when the aligner is called directly
MaxAlTime == 2
\* update() calls in a run of update() alone
MaxSmUpdates == 6

\* --------------------------------------------------------------- constants
\* fixed point: offsets and residuals in 1/1000 px, angles in 1/1000000 rad,
\* weights and the phase response in 1/1000, time in ticks of 0.5 s
\* cfg.interval_sec = 2.0 s
interval_sec == 4
\* the rapid interval, 0.5 s
rapid_interval == 1
\* the rapid interval applies below this many updates
rapid_updates == 20
\* convergence: rms_residual < 3.0 px
converge_rms == 3000
\* convergence: at least this many updates
converge_updates == 5
\* min_sep = 30.0 px, the least x-separation of a slope pair in _theil_sen
min_sep == 30

\* cfg.min_matches = 12
min_matches == 12
\* cfg.smoothing = 0.25, the default
smoothing == 250
\* the converged weight is capped at 0.85
smoothing_cap == 850
\* cfg.max_correction_px = 80.0
max_correction_px == 80000
\* math.radians(cfg.max_correction_deg), 2.0 degrees
max_correction_rad == 34907
\* _phase_align rejects a response below 0.15
min_response == 150
\* float("inf")
Inf == 1000000000

VARIABLES
    \* ---- CameraCapture fields (camera.py:40-44)
    backend,    \* "opencv" | "picamera2"
    frame,      \* self._frame: 0 (None) or the id of a frame object
    lock,       \* holder of self._lock: LockFree, a thread, a reader or start()
    running,    \* self._running
    thread,     \* self._thread: 0 (None) or a thread id
    cap,        \* self._cap: 0 (None) or a device handle id
    \* ---- the world around it
    capOpen,    \* handle id -> is the device handle open
    heap,       \* frame object id -> its pixel content (a capture number; 0: not allocated)
    devSeq,     \* number of captures the device has delivered
    \* ---- acquisition threads
    tpc,        \* thread id -> "unborn" | "loop" | "reading" | "got" | "locked" | "dead"
    tcap,       \* thread id -> the loop's local `cap` (camera.py:178)
    tframe,     \* thread id -> the loop's local `frame` (0 once it has been stored)
    \* ---- the caller of start()/stop()
    cpc,        \* "idle" | "warmup" | "warm_locked" | "join"
    \* ---- readers
    rpc,        \* reader -> "idle" | "fetch" | "copy" | "processing"
    rref,       \* reader -> frame object id it was handed (0: none or a private copy)
    rsnap,      \* reader -> content of the frame when it was handed out
    \* ---- PiccoloApp and its StereoAligner (SpecApp)
    now,          \* time.monotonic(), in ticks
    aligner,      \* the StereoAligner's fields
    calibration,  \* the CalibrationOverlay's active flag and phase
    appRunning,   \* PiccoloApp._running
    pc,           \* main loop: "input" | "grab" | "align" | "warp" | "done" | "stopped"
    camHasFrame,  \* side -> the camera's slot holds a frame
    frame_l,      \* _main_loop's local frame_l: "none", "camL", "dstL"
    frame_r,      \* _main_loop's local frame_r: "none", "camR", "dstR"
    calls,        \* what the current cycle has called so far, in order
    hRaw,         \* the estimate the last update() worked out (None: both methods failed,
                  \* or the last operation was not an update())
    hArgs,        \* the frames the last update() of this cycle was given
    hApplied,     \* the warps warp_pair() applied in this cycle (None: identity)
    hLastUpdateAt, \* time of the last update() call; -1 if none since construction, force_update() or reset()
    hUpdates,     \* update() calls since the aligner was enabled, disabled or reset
    hGap,         \* time between this cycle's update() and the one before it (-1: no update, or a force_update()/reset() in between)
    nApplied,     \* update() calls of this run that produced an estimate
    \* ---- the caller of the StereoAligner's public operations (SpecAligner)
    alOp,         \* the operation called last: "init" | "enable" | "disable" | "update" | "warp_pair" | "force_update" | "reset"
    alOut,        \* the last warp_pair(): the frames it was given and what it returned (None: not called yet)
    hBelow,       \* update() calls since the aligner was enabled or reset whose RMS residual was below the threshold
    \* ---- what CameraCapture does to the world (SpecCam)
    nPrinted,     \* lines CameraCapture has printed
    devCall,      \* the last call start() or stop() made on the device handle: "none" |
                  \* "open" | "release" | "release_again" (release()/stop() on a handle
                  \* that the stop() before had released)
    \* ---- configuration the aligner is constructed with
    cfg_smoothing, \* cfg.smoothing, the base weight of the moving average, in 1/1000
    \* ---- one call of a function of stereo_align.py on its own (SpecFn)
    \* ---- runs of update() alone, under every base weight (SpecSmooth)
    hSeen,        \* the raw estimates the update() calls so far worked out (None: both methods failed)
    fnIn,         \* the function called last and its arguments (None: none yet)
    fnOut,        \* what it returned
    \* ---- ViewerStream and the main loop's side-by-side buffer (SpecStream)
    sbs,          \* the processor's pre-allocated buffer self._sbs: its content
    frame_sbs,    \* ViewerStream._frame_sbs: nothing, the buffer sbs itself, or a copy
    stream_lock,  \* holder of ViewerStream._lock: "free" | "main" | a client
    client_count, \* ViewerStream._client_count
    mpc,          \* main loop: "process_top" | "process_bottom" | "update_frame" |
                  \* "store" | "lock" | "copy" | "draw"
    nFrames,      \* frames the main loop has processed
    gpc,          \* client -> "out" | "inc" | "lock" | "fetch" | "copy_top" |
                  \* "copy_bottom" | "encode" | "dec" | "gone"
    gtmp,         \* client -> the count it loaded for += 1 / -= 1
    graw,         \* client -> what its local `raw` refers to
    gsnap         \* client -> the content of its local `frame`

camVars == <<backend, frame, lock, running, thread, cap, capOpen, heap, devSeq,
             tpc, tcap, tframe, cpc, rpc, rref, rsnap>>

\* the variables only the runs of SpecAligner change
alVars == <<alOp, alOut, hBelow>>

\* the variables only the runs of SpecCam change, besides camVars
worldVars == <<nPrinted, devCall>>

\* the configuration, fixed at construction
cfgVars == <<cfg_smoothing>>

\* the variables only the runs of SpecSmooth change
smVars == <<hSeen>>

\* the variables only the runs of SpecFn change
fnVars == <<fnIn, fnOut>>

\* the variables only the runs of SpecStream change
stVars == <<sbs, frame_sbs, stream_lock, client_count, mpc, nFrames, gpc, gtmp, graw, gsnap>>

appVars == <<now, aligner, calibration, appRunning, pc, camHasFrame, frame_l, frame_r,
             calls, hRaw, hArgs, hApplied, hLastUpdateAt, hUpdates, hGap, nApplied>>

vars == <<backend, frame, lock, running, thread, cap, capOpen, heap, devSeq,
          tpc, tcap, tframe, cpc, rpc, rref, rsnap,
          now, aligner, calibration, appRunning, pc, camHasFrame, frame_l, frame_r,
          calls, hRaw, hArgs, hApplied, hLastUpdateAt, hUpdates, hGap, nApplied,
          alOp, alOut, hBelow, nPrinted, devCall, cfg_smoothing, hSeen, fnIn, fnOut,
          sbs, frame_sbs, stream_lock, client_count, mpc, nFrames, gpc, gtmp, graw, gsnap>>

Threads == 1..MaxStarts
FrameIds == 1..MaxFrames
\* the main loop reads with read_no_copy() (app.py:122), the stream with read()
\* (viewer_stream.py:1248)
Readers == {"main", "stream"}
Backends == {"opencv", "picamera2"}

\* ---------------------------------------------------------------- camera
\* values of the lock: who is inside `with self._lock`
LockFree == [by |-> "none", id |-> 0]
HeldByThread(t) == [by |-> "thread", id |-> t]
HeldByReader(r) == [by |-> r, id |-> 0]
HeldByStart == [by |-> "start", id |-> 0]

CamInit ==
    /\ backend \in Backends
    /\ frame = 0
    /\ lock = LockFree
    /\ running = FALSE
    /\ thread = 0
    /\ cap = 0
    /\ capOpen = [h \in Threads |-> FALSE]
    /\ heap = [i \in FrameIds |-> 0]
    /\ devSeq = 0
    /\ tpc = [t \in Threads |-> "unborn"]
    /\ tcap = [t \in Threads |-> 0]
    /\ tframe = [t \in Threads |-> 0]
    /\ cpc = "idle"
    /\ rpc = [r \in Readers |-> "idle"]
    /\ rref = [r \in Readers |-> 0]
    /\ rsnap = [r \in Readers |-> 0]
    /\ nPrinted = 0
    /\ devCall = "none"

\* content of the frame in the slot (0 when the slot is empty)
SlotSeq == IF frame = 0 THEN 0 ELSE heap[frame]

\* number of threads created so far
nThreads == Cardinality({t \in Threads : tpc[t] # "unborn"})

\* start(), lines 52-58: open the device; when it opens, set _running and
\* start a new thread.  `opened` is what the driver does: the device opens
\* ("ok"), does not open ("unopened": _open_opencv raises, nothing else runs),
\* or reports zero dimensions and is reopened without a check ("zero": the
\* reopened handle may or may not be open, start() goes on either way; only
\* _open_opencv has this path).
StartOpen(opened, reopenedOk) ==
    /\ cpc = "idle"
    /\ nThreads < MaxStarts
    /\ opened = "zero" => backend = "opencv"
    /\ LET h == nThreads + 1 IN
       IF opened = "unopened"
       THEN /\ cap' = h
            /\ capOpen' = [capOpen EXCEPT ![h] = FALSE]
            /\ tpc' = [tpc EXCEPT ![h] = "dead"]
            /\ UNCHANGED <<running, thread, tcap, cpc>>
       ELSE /\ cap' = h
            /\ capOpen' = [capOpen EXCEPT ![h] = (opened = "ok") \/ reopenedOk]
            /\ running' = TRUE
            /\ thread' = h
            /\ tpc' = [tpc EXCEPT ![h] = "loop"]
            /\ tcap' = [tcap EXCEPT ![h] = h]
            /\ cpc' = "warmup"
    /\ nPrinted' = IF backend = "opencv" /\ opened # "unopened"
                   THEN nPrinted + 1 ELSE nPrinted
    /\ devCall' = "open"
    /\ UNCHANGED <<backend, frame, lock, heap, devSeq, tframe, rpc, rref, rsnap>>
    /\ UNCHANGED appVars
    /\ UNCHANGED alVars
    /\ UNCHANGED cfgVars
    /\ UNCHANGED stVars
    /\ UNCHANGED fnVars
    /\ UNCHANGED smVars

\* start(), lines 61-66: the warm-up loop takes the lock to look at the slot
WarmAcquire ==
    /\ cpc = "warmup"
    /\ lock = LockFree
    /\ lock' = HeldByStart
    /\ cpc' = "warm_locked"
    /\ UNCHANGED <<backend, frame, running, thread, cap, capOpen, heap, devSeq,
                   tpc, tcap, tframe, rpc, rref, rsnap>>
    /\ UNCHANGED worldVars
    /\ UNCHANGED appVars
    /\ UNCHANGED alVars
    /\ UNCHANGED cfgVars
    /\ UNCHANGED stVars
    /\ UNCHANGED fnVars
    /\ UNCHANGED smVars

WarmCheck ==
    /\ cpc = "warm_locked"
    /\ lock' = LockFree
    /\ cpc' = IF frame # 0 THEN "idle" ELSE "warmup"
    /\ UNCHANGED <<backend, frame, running, thread, cap, capOpen, heap, devSeq,
                   tpc, tcap, tframe, rpc, rref, rsnap>>
    /\ UNCHANGED worldVars
    /\ UNCHANGED appVars
    /\ UNCHANGED alVars
    /\ UNCHANGED cfgVars
    /\ UNCHANGED stVars
    /\ UNCHANGED fnVars
    /\ UNCHANGED smVars

\* a warm-up that waits for the first frame with no deadline
WarmWaitForFrame ==
    /\ cpc = "warmup"
    /\ frame # 0
    /\ cpc' = "idle"
    /\ UNCHANGED <<backend, frame, lock, running, thread, cap, capOpen, heap, devSeq,
                   tpc, tcap, tframe, rpc, rref, rsnap>>
    /\ UNCHANGED worldVars
    /\ UNCHANGED appVars
    /\ UNCHANGED alVars
    /\ UNCHANGED cfgVars
    /\ UNCHANGED stVars
    /\ UNCHANGED fnVars
    /\ UNCHANGED smVars

\* start(), line 62: the deadline has passed
WarmTimeout ==
    /\ cpc = "warmup"
    /\ cpc' = "idle"
    /\ UNCHANGED <<backend, frame, lock, running, thread, cap, capOpen, heap, devSeq,
                   tpc, tcap, tframe, rpc, rref, rsnap>>
    /\ UNCHANGED worldVars
    /\ UNCHANGED appVars
    /\ UNCHANGED alVars
    /\ UNCHANGED cfgVars
    /\ UNCHANGED stVars
    /\ UNCHANGED fnVars
    /\ UNCHANGED smVars

\* stop(), line 81
StopSignal ==
    /\ cpc = "idle"
    /\ running' = FALSE
    /\ cpc' = "join"
    /\ UNCHANGED <<backend, frame, lock, thread, cap, capOpen, heap, devSeq,
                   tpc, tcap, tframe, rpc, rref, rsnap>>
    /\ UNCHANGED worldVars
    /\ UNCHANGED appVars
    /\ UNCHANGED alVars
    /\ UNCHANGED cfgVars
    /\ UNCHANGED stVars
    /\ UNCHANGED fnVars
    /\ UNCHANGED smVars

\* stop(), lines 82-88: join returns because the thread ended or because the
\* 2 s ran out (timedOut); the device is released either way
StopJoinRelease(timedOut) ==
    /\ cpc = "join"
    /\ (thread # 0 /\ ~timedOut) => tpc[thread] = "dead"
    /\ capOpen' = IF cap # 0 THEN [capOpen EXCEPT ![cap] = FALSE] ELSE capOpen
    /\ devCall' = IF cap = 0 THEN devCall
                  ELSE IF devCall \in {"release", "release_again"} THEN "release_again"
                  ELSE "release"
    /\ cpc' = "idle"
    /\ UNCHANGED <<backend, frame, lock, running, thread, cap, heap, devSeq,
                   tpc, tcap, tframe, rpc, rref, rsnap>>
    /\ UNCHANGED nPrinted
    /\ UNCHANGED appVars
    /\ UNCHANGED alVars
    /\ UNCHANGED cfgVars
    /\ UNCHANGED stVars
    /\ UNCHANGED fnVars
    /\ UNCHANGED smVars

\* the loop taking the lock before the device read, so that it is held across it
GrabTestHoldingLock(t) ==
    /\ tpc[t] = "loop"
    /\ lock = LockFree
    /\ lock' = IF running THEN HeldByThread(t) ELSE lock
    /\ tpc' = [tpc EXCEPT ![t] = IF running THEN "reading" ELSE "dead"]
    /\ UNCHANGED <<backend, frame, running, thread, cap, capOpen, heap, devSeq,
                   tcap, tframe, cpc, rpc, rref, rsnap>>
    /\ UNCHANGED worldVars
    /\ UNCHANGED appVars
    /\ UNCHANGED alVars
    /\ UNCHANGED cfgVars
    /\ UNCHANGED stVars
    /\ UNCHANGED fnVars
    /\ UNCHANGED smVars

\* _grab_loop, line 179 / 189: while self._running
GrabTest(t) ==
    /\ tpc[t] = "loop"
    /\ tpc' = [tpc EXCEPT ![t] = IF running THEN "reading" ELSE "dead"]
    /\ UNCHANGED <<backend, frame, lock, running, thread, cap, capOpen, heap, devSeq,
                   tcap, tframe, cpc, rpc, rref, rsnap>>
    /\ UNCHANGED worldVars
    /\ UNCHANGED appVars
    /\ UNCHANGED alVars
    /\ UNCHANGED cfgVars
    /\ UNCHANGED stVars
    /\ UNCHANGED fnVars
    /\ UNCHANGED smVars

\* the handle the loop reads from: its local `cap` (line 178), or self._cap
\* in the picamera2 loop (line 190)
GrabHandle(t) == IF backend = "picamera2" THEN cap ELSE tcap[t]

\* _grab_loop, line 180 / 190: the device read.  It delivers a new frame
\* object (ok) or fails; a released handle delivers nothing.
GrabRead(t, ok) ==
    /\ tpc[t] = "reading"
    /\ IF ok
       THEN /\ GrabHandle(t) # 0
            /\ capOpen[GrabHandle(t)]
            /\ devSeq < MaxFrames
            /\ devSeq' = devSeq + 1
            /\ heap' = [heap EXCEPT ![devSeq + 1] = devSeq + 1]
            /\ tframe' = [tframe EXCEPT ![t] = devSeq + 1]
            /\ tpc' = [tpc EXCEPT ![t] = "got"]
       ELSE /\ tpc' = [tpc EXCEPT ![t] = "loop"]
            /\ UNCHANGED <<devSeq, heap, tframe>>
    /\ UNCHANGED <<backend, frame, lock, running, thread, cap, capOpen,
                   tcap, cpc, rpc, rref, rsnap>>
    /\ UNCHANGED worldVars
    /\ UNCHANGED appVars
    /\ UNCHANGED alVars
    /\ UNCHANGED cfgVars
    /\ UNCHANGED stVars
    /\ UNCHANGED fnVars
    /\ UNCHANGED smVars

\* _grab_loop, line 182 / 192: with self._lock
GrabAcquire(t) ==
    /\ tpc[t] = "got"
    /\ lock = LockFree
    /\ lock' = HeldByThread(t)
    /\ tpc' = [tpc EXCEPT ![t] = "locked"]
    /\ UNCHANGED <<backend, frame, running, thread, cap, capOpen, heap, devSeq,
                   tcap, tframe, cpc, rpc, rref, rsnap>>
    /\ UNCHANGED worldVars
    /\ UNCHANGED appVars
    /\ UNCHANGED alVars
    /\ UNCHANGED cfgVars
    /\ UNCHANGED stVars
    /\ UNCHANGED fnVars
    /\ UNCHANGED smVars

\* the capture copied into the frame object the slot already holds
GrabPublishInPlace(t) ==
    /\ tpc[t] = "locked"
    /\ IF frame = 0
       THEN frame' = tframe[t] /\ heap' = heap
       ELSE frame' = frame /\ heap' = [heap EXCEPT ![frame] = heap[tframe[t]]]
    /\ lock' = LockFree
    /\ tpc' = [tpc EXCEPT ![t] = "loop"]
    /\ tframe' = [tframe EXCEPT ![t] = 0]
    /\ UNCHANGED <<backend, running, thread, cap, capOpen, devSeq,
                   tcap, cpc, rpc, rref, rsnap>>
    /\ UNCHANGED worldVars
    /\ UNCHANGED appVars
    /\ UNCHANGED alVars
    /\ UNCHANGED cfgVars
    /\ UNCHANGED stVars
    /\ UNCHANGED fnVars
    /\ UNCHANGED smVars

\* _grab_loop, line 183 / 193: self._frame = frame, and the lock is released
GrabPublish(t) ==
    /\ tpc[t] = "locked"
    /\ frame' = tframe[t]
    /\ lock' = LockFree
    /\ tpc' = [tpc EXCEPT ![t] = "loop"]
    /\ tframe' = [tframe EXCEPT ![t] = 0]
    /\ UNCHANGED <<backend, running, thread, cap, capOpen, heap, devSeq,
                   tcap, cpc, rpc, rref, rsnap>>
    /\ UNCHANGED worldVars
    /\ UNCHANGED appVars
    /\ UNCHANGED alVars
    /\ UNCHANGED cfgVars
    /\ UNCHANGED stVars
    /\ UNCHANGED fnVars
    /\ UNCHANGED smVars

\* read() / read_no_copy(), lines 71 and 77: with self._lock
ReadAcquire(r) ==
    /\ rpc[r] = "idle"
    /\ lock = LockFree
    /\ lock' = HeldByReader(r)
    /\ rpc' = [rpc EXCEPT ![r] = IF r = "main" THEN "fetch" ELSE "copy"]
    /\ UNCHANGED <<backend, frame, running, thread, cap, capOpen, heap, devSeq,
                   tpc, tcap, tframe, cpc, rref, rsnap>>
    /\ UNCHANGED worldVars
    /\ UNCHANGED appVars
    /\ UNCHANGED alVars
    /\ UNCHANGED cfgVars
    /\ UNCHANGED stVars
    /\ UNCHANGED fnVars
    /\ UNCHANGED smVars

\* read_no_copy(), line 78: return self._frame
ReadNoCopy(r) ==
    /\ rpc[r] = "fetch"
    /\ rref' = [rref EXCEPT ![r] = frame]
    /\ rsnap' = [rsnap EXCEPT ![r] = SlotSeq]
    /\ lock' = LockFree
    /\ rpc' = [rpc EXCEPT ![r] = "processing"]
    /\ UNCHANGED <<backend, frame, running, thread, cap, capOpen, heap, devSeq,
                   tpc, tcap, tframe, cpc>>
    /\ UNCHANGED worldVars
    /\ UNCHANGED appVars
    /\ UNCHANGED alVars
    /\ UNCHANGED cfgVars
    /\ UNCHANGED stVars
    /\ UNCHANGED fnVars
    /\ UNCHANGED smVars

\* read(), line 72: return self._frame.copy() (a private object) or None
ReadCopy(r) ==
    /\ rpc[r] = "copy"
    /\ rref' = [rref EXCEPT ![r] = 0]
    /\ rsnap' = [rsnap EXCEPT ![r] = SlotSeq]
    /\ lock' = LockFree
    /\ rpc' = [rpc EXCEPT ![r] = "processing"]
    /\ UNCHANGED <<backend, frame, running, thread, cap, capOpen, heap, devSeq,
                   tpc, tcap, tframe, cpc>>
    /\ UNCHANGED worldVars
    /\ UNCHANGED appVars
    /\ UNCHANGED alVars
    /\ UNCHANGED cfgVars
    /\ UNCHANGED stVars
    /\ UNCHANGED fnVars
    /\ UNCHANGED smVars

\* the reader has finished with the pixels of the frame it was handed
ReadDone(r) ==
    /\ rpc[r] = "processing"
    /\ rpc' = [rpc EXCEPT ![r] = "idle"]
    /\ UNCHANGED <<backend, frame, lock, running, thread, cap, capOpen, heap, devSeq,
                   tpc, tcap, tframe, cpc, rref, rsnap>>
    /\ UNCHANGED worldVars
    /\ UNCHANGED appVars
    /\ UNCHANGED alVars
    /\ UNCHANGED cfgVars
    /\ UNCHANGED stVars
    /\ UNCHANGED fnVars
    /\ UNCHANGED smVars

\* --------------------------------------------------------------- aligner
\* Python's None
None == [none |-> TRUE]

Min(a, b) == IF a <= b THEN a ELSE b
Max(a, b) == IF a >= b THEN a ELSE b
\* np.clip
Clip(x, lo, hi) == Max(lo, Min(x, hi))
Abs(x) == IF x < 0 THEN -x ELSE x

\* AlignmentResult(), the dataclass defaults (stereo_align.py:74-83)
AlignmentResult0 ==
    [dy |-> 0, dtheta |-> 0, n_matches |-> 0, confidence |-> 0, timestamp |-> 0,
     method |-> "none", rms_residual |-> Inf]

\* StereoAligner.__init__ (stereo_align.py:114-138)
AlignerInit(cfg_enabled) ==
    [result |-> AlignmentResult0,
     smooth_dy |-> 0, smooth_dtheta |-> 0,
     warp_l |-> None, warp_r |-> None,
     overlap_mask |-> None,
     last_update |-> 0,
     enabled |-> cfg_enabled,
     update_count |-> 0,
     converged |-> FALSE,
     quality |-> Inf]

\* the enabled setter dropping the warps on disable but keeping the
\* smoothed correction, the estimate and the counters
SetEnabledKeepsCorrection(a, val) ==
    IF val
    THEN [a EXCEPT !.enabled = TRUE]
    ELSE [a EXCEPT !.enabled = FALSE,
                   !.warp_l = None, !.warp_r = None,
                   !.overlap_mask = None]

\* the enabled setter (stereo_align.py:148-161)
SetEnabled(a, val) ==
    IF val
    THEN [a EXCEPT !.enabled = TRUE]
    ELSE [a EXCEPT !.enabled = FALSE,
                   !.warp_l = None, !.warp_r = None,
                   !.overlap_mask = None,
                   !.smooth_dy = 0, !.smooth_dtheta = 0,
                   !.converged = FALSE,
                   !.quality = Inf,
                   !.update_count = 0,
                   !.result = AlignmentResult0]

\* has_correction (stereo_align.py:163-165)
HasCorrection(a) == a.warp_l # None

\* needs_update with the rapid interval whenever the aligner is not converged
NeedsUpdateRapidUntilConverged(a, t) ==
    IF ~a.enabled THEN FALSE
    ELSE LET rapid == ~a.converged
             interval == IF rapid THEN rapid_interval ELSE interval_sec
         IN  (t - a.last_update) >= interval

\* needs_update() at clock t (stereo_align.py:180-187)
NeedsUpdate(a, t) ==
    IF ~a.enabled THEN FALSE
    ELSE LET rapid == ~a.converged /\ a.update_count < rapid_updates
             interval == IF rapid THEN rapid_interval ELSE interval_sec
         IN  (t - a.last_update) >= interval

\* force_update() (stereo_align.py:267-269)
ForceUpdate(a) == [a EXCEPT !.last_update = 0]

\* reset() that clears the warps and the estimate but leaves the overlap mask
ResetKeepsMask(a) ==
    [a EXCEPT !.smooth_dy = 0, !.smooth_dtheta = 0,
              !.warp_l = None, !.warp_r = None,
              !.result = AlignmentResult0,
              !.last_update = 0,
              !.update_count = 0,
              !.converged = FALSE,
              !.quality = Inf]

\* reset() (stereo_align.py:271-283)
Reset(a) ==
    [a EXCEPT !.smooth_dy = 0, !.smooth_dtheta = 0,
              !.warp_l = None, !.warp_r = None,
              !.overlap_mask = None,
              !.result = AlignmentResult0,
              !.last_update = 0,
              !.update_count = 0,
              !.converged = FALSE,
              !.quality = Inf]

\* _epipolar_regression reporting the fit as it is, with no np.clip
EpipolarRegressionUnclamped(fit, t) ==
    [dy |-> fit.offset,
     dtheta |-> fit.theta,
     n_matches |-> fit.n,
     confidence |-> (1000 * fit.n) \div Max(fit.n_total, 1),
     timestamp |-> t,
     method |-> "epipolar",
     rms_residual |-> fit.rms]

\* _epipolar_regression after the Theil-Sen fit (stereo_align.py:490-504):
\* the fit (theta, offset, rms) of n matches out of n_total, clamped
EpipolarRegression(fit, t) ==
    [dy |-> Clip(fit.offset, -max_correction_px, max_correction_px),
     dtheta |-> Clip(fit.theta, -max_correction_rad, max_correction_rad),
     n_matches |-> fit.n,
     confidence |-> (1000 * fit.n) \div Max(fit.n_total, 1),
     timestamp |-> t,
     method |-> "epipolar",
     rms_residual |-> fit.rms]

\* _phase_align reporting a residual of 0 for an estimate that has none
PhaseAlignZeroResidual(ph, t) ==
    IF Abs(ph.dy) > max_correction_px THEN None
    ELSE IF ph.response < min_response THEN None
    ELSE [dy |-> ph.dy,
          dtheta |-> 0,
          n_matches |-> 0,
          confidence |-> Min(ph.response, 1000),
          timestamp |-> t,
          method |-> "phase",
          rms_residual |-> 0]

\* _phase_align after cv2.phaseCorrelate (stereo_align.py:581-597): the
\* vertical shift dy (already divided by the scale) and the response
PhaseAlign(ph, t) ==
    IF Abs(ph.dy) > max_correction_px THEN None
    ELSE IF ph.response < min_response THEN None
    ELSE [dy |-> ph.dy,
          dtheta |-> 0,
          n_matches |-> 0,
          confidence |-> Min(ph.response, 1000),
          timestamp |-> t,
          method |-> "phase",
          rms_residual |-> Inf]

\* _rotation_matrix (stereo_align.py:674-687): the matrix is a function of the
\* frame centre, which is fixed, and of (angle, ty), which stand for it here
RotationMatrix(angle, ty) == [angle |-> angle, ty |-> ty]

\* _compute_overlap_mask (stereo_align.py:654-672): the mask is a function of
\* the two warps it is computed from, which stand for it here
ComputeOverlapMask(a) ==
    [a EXCEPT !.overlap_mask = [of_l |-> a.warp_l, of_r |-> a.warp_r]]

\* _build_warp_matrices giving the right eye the same half as the left eye
BuildWarpMatricesSameSign(a) ==
    LET half_dy == a.smooth_dy \div 2
        half_theta == a.smooth_dtheta \div 2
    IN  ComputeOverlapMask(
            [a EXCEPT !.warp_l = RotationMatrix(half_theta, half_dy),
                      !.warp_r = RotationMatrix(half_theta, half_dy)])

\* _build_warp_matrices (stereo_align.py:635-652); halves truncate to the
\* fixed-point unit
BuildWarpMatrices(a) ==
    LET half_dy == a.smooth_dy \div 2
        half_theta == a.smooth_dtheta \div 2
    IN  ComputeOverlapMask(
            [a EXCEPT !.warp_l = RotationMatrix(half_theta, half_dy),
                      !.warp_r = RotationMatrix(-half_theta, -half_dy)])

\* _apply_result using the heavier, converged weight from the first update on
SmoothingWeightAlwaysHeavy(a) ==
    Min((cfg_smoothing * 25) \div 10, smoothing_cap)

\* the weight _apply_result gives to the previous smoothed value (lines 610-619)
SmoothingWeight(a) ==
    LET base_a == cfg_smoothing
    IN  IF ~a.converged THEN base_a ELSE Min((base_a * 25) \div 10, smoothing_cap)

\* the exponential moving average of lines 621-622, weights in 1/1000
Ema(w, prev, new) == (w * prev + (1000 - w) * new) \div 1000

\* _apply_result that smooths and reports but leaves the warps as they were
ApplyResultNoRebuild(a, result) ==
    LET w == SmoothingWeight(a)
        dy == Ema(w, a.smooth_dy, result.dy)
        dtheta == Ema(w, a.smooth_dtheta, result.dtheta)
    IN  [a EXCEPT !.smooth_dy = dy, !.smooth_dtheta = dtheta,
                  !.result = [result EXCEPT !.dy = dy, !.dtheta = dtheta]]

\* _apply_result (stereo_align.py:603-633)
ApplyResult(a, result) ==
    LET w == SmoothingWeight(a)
        dy == Ema(w, a.smooth_dy, result.dy)
        dtheta == Ema(w, a.smooth_dtheta, result.dtheta)
    IN  BuildWarpMatrices(
            [a EXCEPT !.smooth_dy = dy, !.smooth_dtheta = dtheta,
                      !.result = [result EXCEPT !.dy = dy, !.dtheta = dtheta]])

\* update() with no fallback: the feature-based result or nothing
EstimateFeatureOnly(epi, ph, t) ==
    IF epi # None THEN EpipolarRegression(epi, t) ELSE None

\* what the estimation pipeline of update() returns (lines 215-220): the
\* epipolar result, else the phase-correlation result, else None.  epi is the
\* Theil-Sen fit or None when a gate of _epipolar_align fails; ph is what
\* cv2.phaseCorrelate measures or None when it raises.
Estimate(epi, ph, t) ==
    LET result == IF epi # None THEN EpipolarRegression(epi, t) ELSE None
    IN  IF result # None THEN result
        ELSE IF ph # None THEN PhaseAlign(ph, t) ELSE None

\* update() with a converged flag that follows the residual of each estimate
UpdateTracksResidual(a, t, result) ==
    LET a1 == [a EXCEPT !.last_update = t, !.update_count = a.update_count + 1]
    IN  IF result # None
        THEN LET a2 == ApplyResult([a1 EXCEPT !.quality = result.rms_residual], result)
             IN  [a2 EXCEPT !.converged =
                     result.rms_residual < converge_rms /\ a2.update_count >= converge_updates]
        ELSE a1

\* update() (stereo_align.py:189-231) at clock t, `result` being what the
\* pipeline returned
Update(a, t, result) ==
    LET a1 == [a EXCEPT !.last_update = t, !.update_count = a.update_count + 1]
    IN  IF result # None
        THEN LET a2 == ApplyResult([a1 EXCEPT !.quality = result.rms_residual], result)
             IN  IF result.rms_residual < converge_rms /\ a2.update_count >= converge_updates
                 THEN [a2 EXCEPT !.converged = TRUE]
                 ELSE a2
        ELSE a1

\* warp_pair() testing only whether warps exist, not the enabled flag
WarpPairIgnoringEnabled(a, fl, fr) ==
    IF a.warp_l = None
    THEN [l |-> fl, r |-> fr, applied |-> None]
    ELSE [l |-> "dstL", r |-> "dstR",
          applied |-> [warp_l |-> a.warp_l, warp_r |-> a.warp_r, mask |-> a.overlap_mask]]

\* warp_pair() (stereo_align.py:233-265): the frames it returns, and the
\* warps it applied to get them (None: the input frames are returned as they are)
WarpPair(a, fl, fr) ==
    IF ~a.enabled \/ a.warp_l = None
    THEN [l |-> fl, r |-> fr, applied |-> None]
    ELSE [l |-> "dstL", r |-> "dstR",
          applied |-> [warp_l |-> a.warp_l, warp_r |-> a.warp_r, mask |-> a.overlap_mask]]

\* what the pipeline can measure.  A Theil-Sen fit within the maxima (1 degree,
\* 10 px, RMS 1 px) ...
GoodFit == [theta |-> 17453, offset |-> 10000, rms |-> 1000, n |-> 40, n_total |-> 50]
\* ... one beyond both maxima, its RMS on the convergence threshold ...
ClampedFit == [theta |-> -40000, offset |-> 90000, rms |-> 3000, n |-> 12, n_total |-> 48]
Fits == {GoodFit, ClampedFit}
\* ... the fit of a pair that differs by a vertical shift of exactly 10 px
ShiftFit == [theta |-> 0, offset |-> 10000, rms |-> 500, n |-> 40, n_total |-> 50]
\* ... and phase correlations: one accepted, one beyond the maximum shift, one
\* with too weak a response
Phases ==
    { [dy |-> -6000, response |-> 500],
      [dy |-> 81000, response |-> 900],
      [dy |-> 6000, response |-> 100] }

\* ----------------------------------------------------------- calibration
\* CalibrationOverlay.__init__ (calibration.py:45-50)
CalibrationInit == [active |-> FALSE, phase |-> "left"]

\* CalibrationOverlay.toggle (calibration.py:60-66)
Toggle(c) ==
    IF c.active THEN [c EXCEPT !.active = FALSE]
    ELSE [active |-> TRUE, phase |-> "left"]

\* CalibrationOverlay.next_phase (calibration.py:68-80)
NextPhase(c) ==
    IF ~c.active THEN c
    ELSE IF c.phase = "left" THEN [c EXCEPT !.phase = "right"]
    ELSE IF c.phase = "right" THEN [c EXCEPT !.phase = "fuse"]
    ELSE IF c.phase = "fuse" THEN [c EXCEPT !.active = FALSE]
    ELSE c

\* ------------------------------------------------------------ PiccoloApp
Sides == {"L", "R"}
\* the actions of _handle_actions that reach the aligner, the calibration
\* or the loop flag
Actions == {"QUIT", "TOGGLE_CALIBRATION", "CALIB_NEXT", "TOGGLE_ALIGNMENT", "RESET"}
\* web commands; the first five map to the action of the same name
WebCommands == {"quit", "toggle_calibration", "calib_next", "toggle_alignment",
                "reset", "force_align", "reset_nudge"}

\* the state a handler works on: the aligner, the calibration, _running,
\* and the two history values a force_update(), reset() or toggle restarts
HandlerState ==
    [al |-> aligner, cal |-> calibration, running |-> appRunning,
     last |-> hLastUpdateAt, since |-> hUpdates]

\* _handle_actions, lines 189-196
OnToggleCalibration(s) ==
    LET was_active == s.cal.active
        c == Toggle(s.cal)
    IN  IF was_active /\ ~c.active /\ s.al.enabled
        THEN [s EXCEPT !.cal = c, !.al = ForceUpdate(s.al), !.last = -1]
        ELSE [s EXCEPT !.cal = c]

\* _handle_actions, lines 197-205
OnCalibNext(s) ==
    LET was_active == s.cal.active
        c == NextPhase(s.cal)
    IN  IF was_active /\ ~c.active /\ s.al.enabled
        THEN [s EXCEPT !.cal = c, !.al = ForceUpdate(s.al), !.last = -1]
        ELSE [s EXCEPT !.cal = c]

\* TOGGLE_ALIGNMENT flipping the flag and nothing else
OnToggleAlignmentFlagOnly(s) ==
    [s EXCEPT !.al = [s.al EXCEPT !.enabled = ~s.al.enabled], !.since = 0]

\* _handle_actions, lines 210-215
OnToggleAlignment(s) ==
    LET a == SetEnabled(s.al, ~s.al.enabled)
    IN  IF a.enabled
        THEN [s EXCEPT !.al = ForceUpdate(a), !.last = -1, !.since = 0]
        ELSE [s EXCEPT !.al = a, !.since = 0]

\* _handle_actions, lines 216-220
OnReset(s) == [s EXCEPT !.al = Reset(s.al), !.last = -1, !.since = 0]

\* _handle_actions (app.py:178-220), the branches in the order of the code
HandleActions(s, actions) ==
    LET s1 == IF "QUIT" \in actions THEN [s EXCEPT !.running = FALSE] ELSE s
        s2 == IF "TOGGLE_CALIBRATION" \in actions THEN OnToggleCalibration(s1) ELSE s1
        s3 == IF "CALIB_NEXT" \in actions THEN OnCalibNext(s2) ELSE s2
        s4 == IF "TOGGLE_ALIGNMENT" \in actions THEN OnToggleAlignment(s3) ELSE s3
    IN  IF "RESET" \in actions THEN OnReset(s4) ELSE s4

\* action_map of _handle_web_command (app.py:224-236)
ActionOf(cmd) ==
    CASE cmd = "quit" -> "QUIT"
      [] cmd = "toggle_calibration" -> "TOGGLE_CALIBRATION"
      [] cmd = "calib_next" -> "CALIB_NEXT"
      [] cmd = "toggle_alignment" -> "TOGGLE_ALIGNMENT"
      [] cmd = "reset" -> "RESET"
      [] OTHER -> "none"

\* _handle_web_command (app.py:222-245)
HandleWebCommand(s, cmd) ==
    IF ActionOf(cmd) # "none" THEN HandleActions(s, {ActionOf(cmd)})
    ELSE IF cmd = "force_align" THEN [s EXCEPT !.al = ForceUpdate(s.al), !.last = -1]
    ELSE s

\* the streaming clients
Clients == {"c1", "c2"}

\* the content of a buffer nothing has been written to
Blank == [top |-> 0, bottom |-> 0, hud |-> FALSE]

\* ViewerStream.__init__ (viewer_stream.py:908-913) and the processor's buffer
\* (stereo_processor.py:56)
StreamInit ==
    /\ sbs = Blank
    /\ frame_sbs = [ref |-> "none", px |-> Blank]
    /\ stream_lock = "free"
    /\ client_count = 0
    /\ mpc = "process_top"
    /\ nFrames = 0
    /\ gpc = [c \in Clients |-> "out"]
    /\ gtmp = [c \in Clients |-> 0]
    /\ graw = [c \in Clients |-> [ref |-> "none", px |-> Blank]]
    /\ gsnap = [c \in Clients |-> Blank]

AppInit ==
    /\ StreamInit
    /\ cfg_smoothing = smoothing
    /\ hSeen = {}
    /\ fnIn = None
    /\ fnOut = None
    /\ now = 0
    /\ aligner \in {AlignerInit(e) : e \in BOOLEAN}
    /\ calibration = CalibrationInit
    /\ appRunning = TRUE
    /\ pc = "input"
    /\ camHasFrame \in [Sides -> BOOLEAN]
    /\ frame_l = "none"
    /\ frame_r = "none"
    /\ calls = <<>>
    /\ hRaw = None
    /\ hArgs = None
    /\ hApplied = None
    /\ hLastUpdateAt = -1
    /\ hUpdates = 0
    /\ hGap = -1
    /\ nApplied = 0
    /\ alOp = "init"
    /\ alOut = None
    /\ hBelow = 0

\* the monotonic clock advances
Tick ==
    /\ pc # "stopped"
    /\ now < MaxTime
    /\ now' = now + 1
    /\ UNCHANGED <<aligner, calibration, appRunning, pc, camHasFrame, frame_l, frame_r,
                   calls, hRaw, hArgs, hApplied, hLastUpdateAt, hUpdates, hGap, nApplied>>
    /\ UNCHANGED camVars
    /\ UNCHANGED worldVars
    /\ UNCHANGED alVars
    /\ UNCHANGED cfgVars
    /\ UNCHANGED stVars
    /\ UNCHANGED fnVars
    /\ UNCHANGED smVars

\* a camera's acquisition thread stores its first frame: from then on the
\* slot is never empty (camera.py:181-183)
CameraDelivers(side) ==
    /\ pc # "stopped"
    /\ ~camHasFrame[side]
    /\ camHasFrame' = [camHasFrame EXCEPT ![side] = TRUE]
    /\ UNCHANGED <<now, aligner, calibration, appRunning, pc, frame_l, frame_r,
                   calls, hRaw, hArgs, hApplied, hLastUpdateAt, hUpdates, hGap, nApplied>>
    /\ UNCHANGED camVars
    /\ UNCHANGED worldVars
    /\ UNCHANGED alVars
    /\ UNCHANGED cfgVars
    /\ UNCHANGED stVars
    /\ UNCHANGED fnVars
    /\ UNCHANGED smVars

\* _main_loop, lines 114-116: one drained web command
MainWebCommand(cmd) ==
    /\ pc = "input"
    /\ LET s == HandleWebCommand(HandlerState, cmd) IN
        /\ aligner' = s.al
        /\ calibration' = s.cal
        /\ appRunning' = s.running
        /\ hLastUpdateAt' = s.last
        /\ hUpdates' = s.since
    /\ UNCHANGED <<now, pc, camHasFrame, frame_l, frame_r, calls, hRaw, hArgs, hApplied,
                   hGap, nApplied>>
    /\ UNCHANGED camVars
    /\ UNCHANGED worldVars
    /\ UNCHANGED alVars
    /\ UNCHANGED cfgVars
    /\ UNCHANGED stVars
    /\ UNCHANGED fnVars
    /\ UNCHANGED smVars

\* _main_loop, lines 117-119: the polled actions, then the test of _running
MainHandleActions(actions) ==
    /\ pc = "input"
    /\ LET s == HandleActions(HandlerState, actions) IN
        /\ aligner' = s.al
        /\ calibration' = s.cal
        /\ appRunning' = s.running
        /\ hLastUpdateAt' = s.last
        /\ hUpdates' = s.since
        /\ pc' = IF s.running THEN "grab" ELSE "stopped"
    /\ UNCHANGED <<now, camHasFrame, frame_l, frame_r, calls, hRaw, hArgs, hApplied,
                   hGap, nApplied>>
    /\ UNCHANGED camVars
    /\ UNCHANGED worldVars
    /\ UNCHANGED alVars
    /\ UNCHANGED cfgVars
    /\ UNCHANGED stVars
    /\ UNCHANGED fnVars
    /\ UNCHANGED smVars

\* the main loop with a skip only when both frames are missing
MainGrabSkipIfBothMissing ==
    /\ pc = "grab"
    /\ frame_l' = IF camHasFrame["L"] THEN "camL" ELSE "none"
    /\ frame_r' = IF camHasFrame["R"] THEN "camR" ELSE "none"
    /\ IF ~camHasFrame["L"] /\ ~camHasFrame["R"]
       THEN calls' = <<"tick">> /\ pc' = "done"
       ELSE calls' = <<>> /\ pc' = "align"
    /\ UNCHANGED <<now, aligner, calibration, appRunning, camHasFrame,
                   hRaw, hArgs, hApplied, hLastUpdateAt, hUpdates, hGap, nApplied>>
    /\ UNCHANGED camVars
    /\ UNCHANGED worldVars
    /\ UNCHANGED alVars
    /\ UNCHANGED cfgVars
    /\ UNCHANGED stVars
    /\ UNCHANGED fnVars
    /\ UNCHANGED smVars

\* _main_loop, lines 122-126: read both slots; a missing frame skips the cycle
MainGrab ==
    /\ pc = "grab"
    /\ frame_l' = IF camHasFrame["L"] THEN "camL" ELSE "none"
    /\ frame_r' = IF camHasFrame["R"] THEN "camR" ELSE "none"
    /\ IF ~camHasFrame["L"] \/ ~camHasFrame["R"]
       THEN calls' = <<"tick">> /\ pc' = "done"
       ELSE calls' = <<>> /\ pc' = "align"
    /\ UNCHANGED <<now, aligner, calibration, appRunning, camHasFrame,
                   hRaw, hArgs, hApplied, hLastUpdateAt, hUpdates, hGap, nApplied>>
    /\ UNCHANGED camVars
    /\ UNCHANGED worldVars
    /\ UNCHANGED alVars
    /\ UNCHANGED cfgVars
    /\ UNCHANGED stVars
    /\ UNCHANGED fnVars
    /\ UNCHANGED smVars

\* what needs_update() returned, as the cycle's record keeps it
Returned(name, val) == IF val THEN name \o ":True" ELSE name \o ":False"

\* the call of update(frame_l, frame_r) at line 131, with the history it
\* leaves; at most limit calls are followed between two resets of the counter
CallUpdate(epi, ph, limit) ==
    /\ aligner.update_count < limit
    /\ LET result == Estimate(epi, ph, now) IN
        /\ (result # None) => nApplied < MaxApplied
        /\ nApplied' = IF result # None THEN nApplied + 1 ELSE nApplied
        /\ aligner' = Update(aligner, now, result)
        /\ hRaw' = result
    /\ hLastUpdateAt' = now
    /\ hUpdates' = hUpdates + 1
    /\ hGap' = IF hLastUpdateAt >= 0 THEN now - hLastUpdateAt ELSE -1

\* the main loop calling update() whether or not it is due
MainAlignAlways(epi, ph, limit) ==
    /\ pc = "align"
    /\ CallUpdate(epi, ph, limit)
    /\ calls' = <<Returned("needs_update", NeedsUpdate(aligner, now)), "update">>
    /\ hArgs' = <<frame_l, frame_r>>
    /\ pc' = "warp"
    /\ UNCHANGED <<now, calibration, appRunning, camHasFrame, frame_l, frame_r, hApplied>>
    /\ UNCHANGED camVars
    /\ UNCHANGED worldVars
    /\ UNCHANGED alVars
    /\ UNCHANGED cfgVars
    /\ UNCHANGED stVars
    /\ UNCHANGED fnVars
    /\ UNCHANGED smVars

\* the main loop warping before it re-estimates
MainAlignAfterWarp(epi, ph, limit) ==
    /\ pc = "align"
    /\ LET out == WarpPair(aligner, frame_l, frame_r) IN
        /\ frame_l' = out.l
        /\ frame_r' = out.r
        /\ hApplied' = out.applied
        /\ IF NeedsUpdate(aligner, now)
           THEN /\ CallUpdate(epi, ph, limit)
                /\ calls' = <<"warp_pair", Returned("needs_update", TRUE), "update">>
                /\ hArgs' = <<out.l, out.r>>
           ELSE /\ calls' = <<"warp_pair", Returned("needs_update", FALSE)>>
                /\ UNCHANGED <<aligner, hRaw, hArgs, hLastUpdateAt, hUpdates, hGap, nApplied>>
    /\ pc' = "warp"
    /\ UNCHANGED <<now, calibration, appRunning, camHasFrame>>
    /\ UNCHANGED camVars
    /\ UNCHANGED worldVars
    /\ UNCHANGED alVars
    /\ UNCHANGED cfgVars
    /\ UNCHANGED stVars
    /\ UNCHANGED fnVars
    /\ UNCHANGED smVars

\* _main_loop, lines 130-131: update() when needs_update() says so.  epi and
\* ph are what the two estimation methods measure on the frame pair.
MainAlignN(epi, ph, limit) ==
    /\ pc = "align"
    /\ IF NeedsUpdate(aligner, now)
       THEN /\ CallUpdate(epi, ph, limit)
            /\ calls' = <<Returned("needs_update", TRUE), "update">>
            /\ hArgs' = <<frame_l, frame_r>>
       ELSE /\ calls' = <<Returned("needs_update", FALSE)>>
            /\ UNCHANGED <<aligner, hRaw, hArgs, hLastUpdateAt, hUpdates, hGap, nApplied>>
    /\ pc' = "warp"
    /\ UNCHANGED <<now, calibration, appRunning, camHasFrame, frame_l, frame_r, hApplied>>
    /\ UNCHANGED camVars
    /\ UNCHANGED worldVars
    /\ UNCHANGED alVars
    /\ UNCHANGED cfgVars
    /\ UNCHANGED stVars
    /\ UNCHANGED fnVars
    /\ UNCHANGED smVars

\* lines 130-131 in the runs of SpecApp ...
MainAlign(epi, ph) == MainAlignN(epi, ph, MaxUpdates)

\* ... and in the long runs of SpecAppLong
MainAlignLong(epi, ph) == MainAlignN(epi, ph, MaxLongUpdates)

\* _main_loop, lines 132-167: warp_pair(), then the pair goes downstream
MainWarp ==
    /\ pc = "warp"
    /\ LET out == WarpPair(aligner, frame_l, frame_r) IN
        /\ frame_l' = out.l
        /\ frame_r' = out.r
        /\ hApplied' = out.applied
    /\ calls' = calls \o <<"warp_pair", "process_pair", "update_frame", "show", "tick">>
    /\ pc' = "done"
    /\ UNCHANGED <<now, aligner, calibration, appRunning, camHasFrame,
                   hRaw, hArgs, hLastUpdateAt, hUpdates, hGap, nApplied>>
    /\ UNCHANGED camVars
    /\ UNCHANGED worldVars
    /\ UNCHANGED alVars
    /\ UNCHANGED cfgVars
    /\ UNCHANGED stVars
    /\ UNCHANGED fnVars
    /\ UNCHANGED smVars

\* _main_loop, line 109: the next iteration; the cycle's locals are dead
MainLoop ==
    /\ pc = "done"
    /\ pc' = "input"
    /\ frame_l' = "none"
    /\ frame_r' = "none"
    /\ calls' = <<>>
    /\ hRaw' = None
    /\ hArgs' = None
    /\ hApplied' = None
    /\ hGap' = -1
    /\ UNCHANGED <<now, aligner, calibration, appRunning, camHasFrame,
                   hLastUpdateAt, hUpdates, nApplied>>
    /\ UNCHANGED camVars
    /\ UNCHANGED worldVars
    /\ UNCHANGED alVars
    /\ UNCHANGED cfgVars
    /\ UNCHANGED stVars
    /\ UNCHANGED fnVars
    /\ UNCHANGED smVars

\* ------------------------------------------- StereoAligner, called directly
\* frame pairs a caller can pass to warp_pair()
Pairs == {[l |-> "frameA_l", r |-> "frameA_r"], [l |-> "frameB_l", r |-> "frameB_r"]}

\* what a direct call of the aligner leaves alone: the camera, the main loop
\* and its calibration
AlignerOnly ==
    /\ UNCHANGED <<calibration, appRunning, pc, camHasFrame, frame_l, frame_r,
                   calls, hArgs, hApplied, hGap>>
    /\ UNCHANGED camVars
    /\ UNCHANGED worldVars
    /\ UNCHANGED cfgVars
    /\ UNCHANGED stVars
    /\ UNCHANGED fnVars
    /\ UNCHANGED smVars

\* the monotonic clock advances between two calls
AlTick ==
    /\ now < MaxAlTime
    /\ now' = now + 1
    /\ UNCHANGED <<aligner, hRaw, hLastUpdateAt, hUpdates, hBelow, nApplied, alOp, alOut>>
    /\ AlignerOnly

\* aligner.enabled = val (stereo_align.py:148-161)
AlSetEnabled(val) ==
    /\ aligner' = SetEnabled(aligner, val)
    /\ alOp' = IF val THEN "enable" ELSE "disable"
    /\ alOut' = IF val THEN alOut ELSE None
    /\ hUpdates' = 0
    /\ hBelow' = 0
    /\ hRaw' = None
    /\ UNCHANGED <<now, hLastUpdateAt, nApplied>>
    /\ AlignerOnly

\* aligner.update(frame_l, frame_r) (stereo_align.py:189-231); epi and ph are
\* what the two methods measure on the pair
AlUpdate(epi, ph) ==
    /\ aligner.update_count < MaxUpdates
    /\ LET result == Estimate(epi, ph, now) IN
        /\ (result # None) => nApplied < MaxApplied
        /\ nApplied' = IF result # None THEN nApplied + 1 ELSE nApplied
        /\ aligner' = Update(aligner, now, result)
        /\ hRaw' = result
        /\ hBelow' = IF result # None /\ result.rms_residual < converge_rms
                     THEN hBelow + 1 ELSE hBelow
    /\ hUpdates' = hUpdates + 1
    /\ hLastUpdateAt' = now
    /\ alOp' = "update"
    /\ alOut' = None
    /\ UNCHANGED now
    /\ AlignerOnly

\* warp_pair() stamping the time of the call into _last_update
AlWarpPairStampsTime(pair) ==
    /\ LET out == WarpPair(aligner, pair.l, pair.r) IN
        alOut' = [given |-> pair, l |-> out.l, r |-> out.r, applied |-> out.applied,
                  enabled |-> aligner.enabled,
                  repeat |-> (alOut # None /\ alOut.given = pair)]
    /\ alOp' = "warp_pair"
    /\ hRaw' = None
    /\ aligner' = [aligner EXCEPT !.last_update = now]
    /\ UNCHANGED <<now, hLastUpdateAt, hUpdates, hBelow, nApplied>>
    /\ AlignerOnly

\* aligner.warp_pair(frame_l, frame_r) (stereo_align.py:233-265): it reads
\* the warps and the mask and writes only its two destination buffers.  alOut records the
\* frames given, the frames returned, the warps applied, the enabled flag the
\* call saw, and whether the call before it (with no update(), reset() or
\* disabling in between) was given the same frames.
AlWarpPair(pair) ==
    /\ LET out == WarpPair(aligner, pair.l, pair.r) IN
        alOut' = [given |-> pair, l |-> out.l, r |-> out.r, applied |-> out.applied,
                  enabled |-> aligner.enabled,
                  repeat |-> (alOut # None /\ alOut.given = pair)]
    /\ alOp' = "warp_pair"
    /\ hRaw' = None
    /\ UNCHANGED <<now, aligner, hLastUpdateAt, hUpdates, hBelow, nApplied>>
    /\ AlignerOnly

\* aligner.force_update() (stereo_align.py:267-269)
AlForceUpdate ==
    /\ aligner' = ForceUpdate(aligner)
    /\ hLastUpdateAt' = -1
    /\ alOp' = "force_update"
    /\ hRaw' = None
    /\ UNCHANGED <<now, hUpdates, hBelow, nApplied, alOut>>
    /\ AlignerOnly

\* aligner.reset() (stereo_align.py:271-283)
AlReset ==
    /\ aligner' = Reset(aligner)
    /\ hLastUpdateAt' = -1
    /\ hUpdates' = 0
    /\ hBelow' = 0
    /\ alOp' = "reset"
    /\ alOut' = None
    /\ hRaw' = None
    /\ UNCHANGED <<now, nApplied>>
    /\ AlignerOnly

CamNext ==
    \/ \E o \in {"ok", "unopened", "zero"}, b \in BOOLEAN : StartOpen(o, b)
    \/ WarmAcquire
    \/ WarmCheck
    \/ WarmTimeout
    \/ StopSignal
    \/ \E b \in BOOLEAN : StopJoinRelease(b)
    \/ \E t \in Threads : GrabTest(t)
    \/ \E t \in Threads, ok \in BOOLEAN : GrabRead(t, ok)
    \/ \E t \in Threads : GrabAcquire(t)
    \/ \E t \in Threads : GrabPublish(t)
    \/ \E r \in Readers : ReadAcquire(r)
    \/ \E r \in Readers : ReadNoCopy(r)
    \/ \E r \in Readers : ReadCopy(r)
    \/ \E r \in Readers : ReadDone(r)

SpecCamInit == CamInit /\ AppInit /\ aligner.enabled /\ \A side \in Sides : camHasFrame[side]

SpecCam == SpecCamInit /\ [][CamNext]_vars

\* the sets of actions one poll of the input handler can return
Polled == {x \in SUBSET Actions : Cardinality(x) <= MaxPolled}

AppNext ==
    \/ Tick
    \/ \E side \in Sides : CameraDelivers(side)
    \/ \E cmd \in WebCommands : MainWebCommand(cmd)
    \/ \E actions \in Polled : MainHandleActions(actions)
    \/ MainGrab
    \/ \E epi \in {GoodFit, None}, ph \in Phases \cup {None} : MainAlign(epi, ph)
    \/ MainWarp
    \/ MainLoop

SpecAppInit == CamInit /\ backend = "opencv" /\ AppInit

SpecApp == SpecAppInit /\ [][AppNext]_vars

\* long runs of the main loop: both cameras deliver, the aligner is enabled,
\* the only inputs are force_align and reset, and only the feature-based
\* method measures anything
LongNext ==
    \/ Tick
    \/ \E cmd \in {"force_align", "reset"} : MainWebCommand(cmd)
    \/ MainHandleActions({})
    \/ MainGrab
    \/ \E epi \in Fits \cup {None} : MainAlignLong(epi, None)
    \/ MainWarp
    \/ MainLoop

SpecAppLongInit ==
    /\ SpecAppInit
    /\ aligner.enabled
    /\ \A side \in Sides : camHasFrame[side]

SpecAppLong == SpecAppLongInit /\ [][LongNext]_vars

\* update() called again and again on one enabled aligner, whatever the clock
\* (stereo_align.py:189-231)
SmUpdate(epi, ph) ==
    /\ aligner.update_count < MaxSmUpdates
    /\ LET result == Estimate(epi, ph, now) IN
        /\ aligner' = Update(aligner, now, result)
        /\ hRaw' = result
        /\ hSeen' = hSeen \cup {result}
        /\ nApplied' = IF result # None THEN nApplied + 1 ELSE nApplied
        /\ hBelow' = IF result # None /\ result.rms_residual < converge_rms
                      THEN hBelow + 1 ELSE hBelow
    /\ hUpdates' = hUpdates + 1
    /\ hLastUpdateAt' = now
    /\ alOp' = "update"
    /\ UNCHANGED <<now, alOut>>
    /\ UNCHANGED <<calibration, appRunning, pc, camHasFrame, frame_l, frame_r,
                   calls, hArgs, hApplied, hGap>>
    /\ UNCHANGED camVars
    /\ UNCHANGED worldVars
    /\ UNCHANGED cfgVars
    /\ UNCHANGED stVars
    /\ UNCHANGED fnVars

\* base weights the aligner can be configured with: 0, the default, one
\* between, the cap, one above the cap, and 1
Weights == {0, smoothing, 600, smoothing_cap, 900, 1000}

SmoothNext ==
    \E epi \in Fits \cup {ShiftFit, None}, ph \in Phases \cup {None} : SmUpdate(epi, ph)

\* AlignmentCfg(smoothing = w), StereoAligner(cfg, ...) with enabled = True
SpecSmoothInit ==
    /\ CamInit /\ backend = "opencv"
    /\ StreamInit
    /\ cfg_smoothing \in Weights
    /\ hSeen = {}
    /\ fnIn = None /\ fnOut = None
    /\ now = 0
    /\ aligner = AlignerInit(TRUE)
    /\ calibration = CalibrationInit
    /\ appRunning = TRUE
    /\ pc = "input"
    /\ camHasFrame = [side \in Sides |-> TRUE]
    /\ frame_l = "none" /\ frame_r = "none"
    /\ calls = <<>>
    /\ hRaw = None /\ hArgs = None /\ hApplied = None
    /\ hLastUpdateAt = -1 /\ hUpdates = 0 /\ hGap = -1 /\ nApplied = 0
    /\ alOp = "init" /\ alOut = None /\ hBelow = 0

SpecSmooth == SpecSmoothInit /\ [][SmoothNext]_vars

\* ------------------------------------------- functions called on their own
\* what _epipolar_align (stereo_align.py:302-361) measures on a frame pair:
\* the keypoints of each image (0: no descriptors), the cross-checked and the
\* one-way matches, the matches that pass the spatial filter, those kept by
\* the grid, the RANSAC inliers (-1: findFundamentalMat raises or finds no
\* matrix), and the Theil-Sen fit of the points that are left
Meas(kp_l, kp_r, cross, one_way, spatial, grid, ransac) ==
    [kp_l |-> kp_l, kp_r |-> kp_r, cross |-> cross, one_way |-> one_way,
     spatial |-> spatial, grid |-> grid, ransac |-> ransac, fit |-> GoodFit]

\* one measurement for each gate that can fail, and for each way through
Measurements ==
    { Meas(0, 50, 0, 0, 0, 0, -1),
      Meas(9, 50, 9, 9, 9, 9, -1),
      Meas(50, 50, 5, 8, 8, 8, -1),
      Meas(50, 50, 5, 20, 11, 11, -1),
      Meas(50, 50, 30, 30, 30, 11, -1),
      Meas(50, 50, 30, 30, 25, 20, -1),
      Meas(50, 50, 30, 30, 25, 20, 8),
      Meas(50, 50, 30, 30, 25, 20, 15),
      Meas(60, 60, 5, 40, 40, 30, 25) }

\* _epipolar_align, lines 302-358: the gates.  The fit that goes into
\* _epipolar_regression, with the number of points left and of matches found,
\* or None when a gate fails.
GatedFit(m) ==
    IF m.kp_l = 0 \/ m.kp_r = 0 THEN None
    ELSE IF m.kp_l < 10 \/ m.kp_r < 10 THEN None
    ELSE LET matches == IF m.cross >= min_matches THEN m.cross ELSE m.one_way IN
         IF matches < min_matches THEN None
         ELSE LET spatial == Min(m.spatial, matches) IN
              IF spatial < min_matches THEN None
              ELSE LET grid == Min(m.grid, spatial) IN
                   IF grid < min_matches THEN None
                   ELSE LET n == IF grid >= 8 /\ m.ransac >= min_matches
                                 THEN Min(m.ransac, grid) ELSE grid
                        IN  IF n < 4 THEN None
                            ELSE [m.fit EXCEPT !.n = n, !.n_total = matches]

\* the frames update() is given: a camera pair, a pair too small to hold ten
\* keypoints (SIFT finds none), or a pair of empty arrays
FrameKinds == {"pair", "undersized", "empty"}

\* update(frame_l, frame_r) (stereo_align.py:189-231) from the frames on:
\* lines 196-197 stamp the time and count the call; cv2.resize (line 202)
\* raises cv2.error on an empty array and nothing in update() catches it;
\* otherwise the pipeline runs and the result, if any, is applied.
UpdateOn(a, t, frames, m, ph) ==
    IF frames = "empty"
    THEN [raised |-> TRUE, epipolar |-> None, result |-> None,
          after |-> Update(a, t, None)]
    ELSE LET seen == IF frames = "undersized"
                     THEN [m EXCEPT !.kp_l = 0, !.kp_r = 0] ELSE m
             result == Estimate(GatedFit(seen), ph, t)
         IN  [raised |-> FALSE, epipolar |-> GatedFit(seen), result |-> result,
              after |-> Update(a, t, result)]

\* aligners update() is called on: a fresh one, and one holding an estimate
Befores ==
    { AlignerInit(TRUE),
      Update(AlignerInit(TRUE), 0, EpipolarRegression(ClampedFit, 0)) }

CallUpdateOn(a, frames, m, ph) ==
    /\ fnIn = None
    /\ fnIn' = [fn |-> "update", before |-> a, frames |-> frames, m |-> m, ph |-> ph]
    /\ fnOut' = UpdateOn(a, now, frames, m, ph)
    /\ UNCHANGED <<aligner, now, hRaw, hLastUpdateAt, hUpdates, nApplied>>
    /\ UNCHANGED <<calibration, appRunning, pc, camHasFrame, frame_l, frame_r,
                   calls, hArgs, hApplied, hGap>>
    /\ UNCHANGED camVars
    /\ UNCHANGED worldVars
    /\ UNCHANGED alVars
    /\ UNCHANGED cfgVars
    /\ UNCHANGED stVars
    /\ UNCHANGED smVars

\* cv2.warpAffine(ones, warp, (w, h), INTER_NEAREST, BORDER_CONSTANT 0)
\* (stereo_align.py:659-666) reads, for the output pixel (x, y), the source
\* pixel nearest to the inverse of `warp` applied to (x, y).  The matrix of
\* _rotation_matrix (674-687) rotates about the centre (w/2, h/2) and then
\* shifts the rows by ty; its inverse is taken to first order in the angle
\* (cos = 1, sin = angle, the angle being at most one degree).  Coordinates
\* are in 1/1000 px, angles in 1/1000000 rad.
SrcY(warp, w, x, y) == 1000 * y - warp.ty - (warp.angle * (2 * x - w)) \div 2000
SrcX(warp, w, h, x, y) ==
    1000 * x + (warp.angle * ((2 * SrcY(warp, w, x, y) - 1000 * h) \div 1000)) \div 2000

\* the output pixel (x, y) is 255: its source pixel lies inside the frame
Opaque(warp, w, h, x, y) ==
    LET sy == (SrcY(warp, w, x, y) + 500) \div 1000
        sx == (SrcX(warp, w, h, x, y) + 500) \div 1000
    IN  sx \in 0..(w - 1) /\ sy \in 0..(h - 1)

\* _compute_overlap_mask (stereo_align.py:654-672) for a frame of w x h: the
\* pixels opaque in both warped images, eroded by a 5 x 5 kernel (pixels
\* outside the frame do not erode)
OverlapMaskPixels(warp_l, warp_r, w, h) ==
    LET Both(x, y) == Opaque(warp_l, w, h, x, y) /\ Opaque(warp_r, w, h, x, y)
    IN  { p \in (0..(w - 1)) \X (0..(h - 1)) :
            \A i \in -2..2, j \in -2..2 :
                (p[1] + i \in 0..(w - 1) /\ p[2] + j \in 0..(h - 1)) =>
                    Both(p[1] + i, p[2] + j) }

\* frame sizes an aligner is constructed with (cfg.cameras.left.width, height)
FrameSizes == { <<80, 60>>, <<120, 90>> }
\* smoothed corrections within the maxima: none or the largest offset either
\* way, with no rotation or the largest one
MaskOffsets == {0, max_correction_px, -max_correction_px}
MaskAngles == {0, max_correction_rad}

\* StereoAligner(cfg, w, h) holding the smoothed correction (dy, dtheta):
\* _build_warp_matrices() (stereo_align.py:635-652)
CallBuildWarpMatrices(size, dy, dtheta) ==
    /\ fnIn = None
    /\ LET a == BuildWarpMatrices([AlignerInit(TRUE) EXCEPT !.smooth_dy = dy,
                                                           !.smooth_dtheta = dtheta])
           mask == OverlapMaskPixels(a.warp_l, a.warp_r, size[1], size[2])
       IN  /\ fnIn' = [fn |-> "_build_warp_matrices", w |-> size[1], h |-> size[2],
                       smooth_dy |-> dy, smooth_dtheta |-> dtheta]
           /\ fnOut' = [warp_l |-> a.warp_l, warp_r |-> a.warp_r,
                        mask_pixels |-> Cardinality(mask)]
    /\ UNCHANGED <<aligner, now, hRaw, hLastUpdateAt, hUpdates, nApplied>>
    /\ UNCHANGED <<calibration, appRunning, pc, camHasFrame, frame_l, frame_r,
                   calls, hArgs, hApplied, hGap>>
    /\ UNCHANGED camVars
    /\ UNCHANGED worldVars
    /\ UNCHANGED alVars
    /\ UNCHANGED cfgVars
    /\ UNCHANGED stVars
    /\ UNCHANGED smVars

\* ------------------------------------------------------------- _theil_sen
\* x in whole px, y and the intercept in 1/1000 px, slopes in 1/1000000.
\* a / b rounded down, for a divisor of either sign
Quot(a, b) == IF b > 0 THEN a \div b ELSE (-a) \div (-b)

\* the k-th smallest value of the function f (counted with multiplicity)
Kth(f, k) ==
    CHOOSE v \in {f[d] : d \in DOMAIN f} :
        /\ Cardinality({d \in DOMAIN f : f[d] < v}) < k
        /\ k <= Cardinality({d \in DOMAIN f : f[d] <= v})

\* np.median: the middle value, or the mean of the two middle values
Median(f) ==
    LET n == Cardinality(DOMAIN f)
    IN  IF n % 2 = 1 THEN Kth(f, (n + 1) \div 2)
        ELSE (Kth(f, n \div 2) + Kth(f, n \div 2 + 1)) \div 2

\* np.triu_indices(n, k=1) with valid = |dx| > min_sep (stereo_align.py:526-528)
ValidPairs(x) ==
    { p \in (1..Len(x)) \X (1..Len(x)) :
        p[1] < p[2] /\ Abs(x[p[2]] - x[p[1]]) > min_sep }

RECURSIVE SumSeq(_)
SumSeq(s) == IF s = <<>> THEN 0 ELSE Head(s) + SumSeq(Tail(s))

\* the integer square root
ISqrt(n) == CHOOSE r \in 0..100000 : r * r <= n /\ n < (r + 1) * (r + 1)

\* _theil_sen for at most 200 points (stereo_align.py:521-533, 550-556); the
\* RMS is computed from residuals rounded to 1/100 px
TheilSen(x, y) ==
    LET valid == ValidPairs(x)
        slopes == [p \in valid |->
                      Quot((y[p[2]] - y[p[1]]) * 1000, x[p[2]] - x[p[1]])]
        slope == IF Cardinality(valid) < 3 THEN 0 ELSE Median(slopes)
        intercepts == [i \in 1..Len(x) |-> y[i] - (slope * x[i]) \div 1000]
        intercept == Median(intercepts)
        residuals == [i \in 1..Len(x) |->
                         (y[i] - (intercept + (slope * x[i]) \div 1000)) \div 10]
        squares == [i \in 1..Len(x) |-> residuals[i] * residuals[i]]
    IN  [slope |-> slope,
         intercept |-> intercept,
         rms |-> 10 * ISqrt(SumSeq(squares) \div Len(x))]

\* the x coordinates of the point sets: five points spaced by exactly the
\* minimum separation, five and eight points spaced more widely, and four
\* points too close together for a slope
Layouts ==
    { <<-60, -30, 0, 30, 60>>,
      <<-100, -50, 0, 50, 100>>,
      <<-140, -100, -60, -20, 20, 60, 100, 140>>,
      <<-10, 0, 10, 20>> }

\* the planted lines
Lines == { [slope |-> 0, intercept |-> 10000], [slope |-> 2000, intercept |-> -4000] }

\* how far a gross outlier lies off the line: 50 px either way
OutlierShifts == {50000, -50000}

\* the sets of outlier indices that are fewer than 29% of n points
OutlierSets(n) == { o \in SUBSET (1..n) : 100 * Cardinality(o) < 29 * n }

\* the points of `line` at x, those of `outliers` moved off it by `shift`
Planted(x, line, outliers, shift) ==
    [i \in 1..Len(x) |->
        line.intercept + (line.slope * x[i]) \div 1000
            + (IF i \in outliers THEN shift ELSE 0)]

\* one call of _theil_sen on a planted point set
CallTheilSen(x, line, outliers, shift) ==
    /\ fnIn = None
    /\ fnIn' = [fn |-> "_theil_sen", x |-> x, y |-> Planted(x, line, outliers, shift),
                line |-> line, outliers |-> outliers]
    /\ fnOut' = TheilSen(x, Planted(x, line, outliers, shift))
    /\ UNCHANGED <<aligner, now, hRaw, hLastUpdateAt, hUpdates, nApplied>>
    /\ UNCHANGED <<calibration, appRunning, pc, camHasFrame, frame_l, frame_r,
                   calls, hArgs, hApplied, hGap>>
    /\ UNCHANGED camVars
    /\ UNCHANGED worldVars
    /\ UNCHANGED alVars
    /\ UNCHANGED cfgVars
    /\ UNCHANGED stVars
    /\ UNCHANGED smVars

\* ---------------------------------- _theil_sen, more than 200 points
\* the least number of points that takes the sub-sampled branch (line 524)
ManyPoints == 201

\* the number of pairs drawn, standing for n_pairs = min(50000, n(n-1)/2)
MaxPairs == 4

\* a set of ManyPoints points on a line: x spread over -200..200
ManyX == [i \in 1..ManyPoints |-> ((i * 37) % 401) - 200]

\* the pairs of indices (ai[k], bi[k]) the generator can return: three pairs
\* more than min_sep apart (one of them with dx < 0), one pair 6 px apart,
\* and one pair of equal indices
DrawnPairs == { <<1, 2>>, <<3, 1>>, <<2, 4>>, <<1, 12>>, <<5, 5>> }

\* _theil_sen on more than 200 points (stereo_align.py:536-556), given the
\* pairs ai[k], bi[k] that rng.integers returned.  slopes holds one slope per
\* valid pair; valid is a mask over the kept pairs, and indexing slopes with
\* it (line 548) raises IndexError unless the two have the same length.
TheilSenSampled(x, y, drawn) ==
    LET keep == {k \in DOMAIN drawn : drawn[k][1] # drawn[k][2]}
        dx == [k \in keep |-> x[drawn[k][2]] - x[drawn[k][1]]]
        valid == {k \in keep : Abs(dx[k]) > min_sep}
        slopes == [k \in valid |->
                      Quot((y[drawn[k][2]] - y[drawn[k][1]]) * 1000, dx[k])]
        raises == Cardinality(valid) >= 3 /\ Cardinality(valid) # Cardinality(keep)
        slope == IF Cardinality(valid) < 3 THEN 0 ELSE Median(slopes)
        intercepts == [i \in 1..Len(x) |-> y[i] - (slope * x[i]) \div 1000]
        intercept == Median(intercepts)
        residuals == [i \in 1..Len(x) |->
                         (y[i] - (intercept + (slope * x[i]) \div 1000)) \div 10]
        squares == [i \in 1..Len(x) |-> residuals[i] * residuals[i]]
    IN  IF raises THEN [raised |-> "IndexError"]
        ELSE [raised |-> "nothing",
              slope |-> slope,
              intercept |-> intercept,
              rms |-> 10 * ISqrt(SumSeq(squares) \div Len(x))]

\* one call of _theil_sen on the ManyPoints points of a line
CallTheilSenSampled(line, drawn) ==
    /\ fnIn = None
    /\ fnIn' = [fn |-> "_theil_sen", x |-> ManyX, y |-> Planted(ManyX, line, {}, 0),
                line |-> line, drawn |-> drawn]
    /\ fnOut' = TheilSenSampled(ManyX, Planted(ManyX, line, {}, 0), drawn)
    /\ UNCHANGED <<aligner, now, hRaw, hLastUpdateAt, hUpdates, nApplied>>
    /\ UNCHANGED <<calibration, appRunning, pc, camHasFrame, frame_l, frame_r,
                   calls, hArgs, hApplied, hGap>>
    /\ UNCHANGED camVars
    /\ UNCHANGED worldVars
    /\ UNCHANGED alVars
    /\ UNCHANGED cfgVars
    /\ UNCHANGED stVars
    /\ UNCHANGED smVars

FnNext ==
    \/ \E size \in FrameSizes, dy \in MaskOffsets, dtheta \in MaskAngles :
          CallBuildWarpMatrices(size, dy, dtheta)
    \/ \E a \in Befores, frames \in FrameKinds, m \in Measurements, ph \in Phases \cup {None} :
          CallUpdateOn(a, frames, m, ph)
    \/ \E x \in Layouts, line \in Lines, shift \in OutlierShifts :
          \E outliers \in OutlierSets(Len(x)) :
              CallTheilSen(x, line, outliers, shift)
    \/ \E line \in Lines, drawn \in [1..MaxPairs -> DrawnPairs] :
          CallTheilSenSampled(line, drawn)

SpecFnInit ==
    /\ SpecAppInit
    /\ aligner.enabled
    /\ \A side \in Sides : camHasFrame[side]

SpecFn == SpecFnInit /\ [][FnNext]_vars

\* the public operations of one StereoAligner, called in any order
\* ------------------------------------------- ViewerStream and its clients
\* frames the main loop processes in a run
MaxStreamFrames == 2

\* what the steps of SpecStream leave alone
StreamOnly ==
    /\ UNCHANGED appVars
    /\ UNCHANGED camVars
    /\ UNCHANGED worldVars
    /\ UNCHANGED alVars
    /\ UNCHANGED cfgVars
    /\ UNCHANGED smVars
    /\ UNCHANGED fnVars

\* the buffer a reference refers to: the main loop's own, or a copy
Content(raw) == IF raw.ref = "sbs" THEN sbs ELSE raw.px

\* _main_loop, line 136: process_pair() writes the next frame into the
\* pre-allocated buffer (stereo_processor.py:56-58, 160-168), here its upper
\* part ...
MainProcessTop ==
    /\ mpc = "process_top"
    /\ nFrames < MaxStreamFrames
    /\ sbs' = [sbs EXCEPT !.top = nFrames + 1]
    /\ mpc' = "process_bottom"
    /\ UNCHANGED <<frame_sbs, stream_lock, client_count, nFrames, gpc, gtmp, graw, gsnap>>
    /\ StreamOnly

\* ... and its lower part, over what was drawn there
MainProcessBottom ==
    /\ mpc = "process_bottom"
    /\ sbs' = [sbs EXCEPT !.bottom = nFrames + 1, !.hud = FALSE]
    /\ nFrames' = nFrames + 1
    /\ mpc' = "update_frame"
    /\ UNCHANGED <<frame_sbs, stream_lock, client_count, gpc, gtmp, graw, gsnap>>
    /\ StreamOnly

\* update_frame, line 945: the test of _client_count
UpdateFrameTest ==
    /\ mpc = "update_frame"
    /\ mpc' = IF client_count <= 0 THEN "store" ELSE "lock"
    /\ UNCHANGED <<sbs, frame_sbs, stream_lock, client_count, nFrames, gpc, gtmp, graw, gsnap>>
    /\ StreamOnly

\* update_frame, lines 946-950: no clients, keep a reference
UpdateFrameStore ==
    /\ mpc = "store"
    /\ frame_sbs' = [ref |-> "sbs", px |-> Blank]
    /\ mpc' = "draw"
    /\ UNCHANGED <<sbs, stream_lock, client_count, nFrames, gpc, gtmp, graw, gsnap>>
    /\ StreamOnly

\* update_frame, line 951: with self._lock
UpdateFrameAcquire ==
    /\ mpc = "lock"
    /\ stream_lock = "free"
    /\ stream_lock' = "main"
    /\ mpc' = "copy"
    /\ UNCHANGED <<sbs, frame_sbs, client_count, nFrames, gpc, gtmp, graw, gsnap>>
    /\ StreamOnly

\* update_frame, lines 952-957: store a copy, release the lock
UpdateFrameCopy ==
    /\ mpc = "copy"
    /\ frame_sbs' = [ref |-> "copy", px |-> sbs]
    /\ stream_lock' = "free"
    /\ mpc' = "draw"
    /\ UNCHANGED <<sbs, client_count, nFrames, gpc, gtmp, graw, gsnap>>
    /\ StreamOnly

\* _main_loop, lines 155-163: the annotations and the HUD are drawn into the
\* buffer, which is then displayed
MainDraw ==
    /\ mpc = "draw"
    /\ sbs' = [sbs EXCEPT !.hud = TRUE]
    /\ mpc' = "process_top"
    /\ UNCHANGED <<frame_sbs, stream_lock, client_count, nFrames, gpc, gtmp, graw, gsnap>>
    /\ StreamOnly

\* _generate, line 1170: self._client_count += 1, the load ...
GenConnect(c) ==
    /\ gpc[c] = "out"
    /\ gtmp' = [gtmp EXCEPT ![c] = client_count]
    /\ gpc' = [gpc EXCEPT ![c] = "inc"]
    /\ UNCHANGED <<sbs, frame_sbs, stream_lock, client_count, mpc, nFrames, graw, gsnap>>
    /\ StreamOnly

\* ... and the store
GenIncrement(c) ==
    /\ gpc[c] = "inc"
    /\ client_count' = gtmp[c] + 1
    /\ gpc' = [gpc EXCEPT ![c] = "lock"]
    /\ UNCHANGED <<sbs, frame_sbs, stream_lock, mpc, nFrames, gtmp, graw, gsnap>>
    /\ StreamOnly

\* _generate, line 1174: with self._lock
GenAcquire(c) ==
    /\ gpc[c] = "lock"
    /\ stream_lock = "free"
    /\ stream_lock' = c
    /\ gpc' = [gpc EXCEPT ![c] = "fetch"]
    /\ UNCHANGED <<sbs, frame_sbs, client_count, mpc, nFrames, gtmp, graw, gsnap>>
    /\ StreamOnly

\* _generate, lines 1194-1201: raw = self._frame_sbs; with nothing stored the
\* lock is released and the loop sleeps and starts over (lines 1217-1219)
GenFetch(c) ==
    /\ gpc[c] = "fetch"
    /\ graw' = [graw EXCEPT ![c] = frame_sbs]
    /\ IF frame_sbs.ref = "none"
       THEN stream_lock' = "free" /\ gpc' = [gpc EXCEPT ![c] = "lock"]
       ELSE stream_lock' = stream_lock /\ gpc' = [gpc EXCEPT ![c] = "copy_top"]
    /\ UNCHANGED <<sbs, frame_sbs, client_count, mpc, nFrames, gtmp, gsnap>>
    /\ StreamOnly

\* _generate, line 1201: frame = raw.copy(), the upper part of the buffer ...
GenCopyTop(c) ==
    /\ gpc[c] = "copy_top"
    /\ gsnap' = [gsnap EXCEPT ![c] = [@ EXCEPT !.top = Content(graw[c]).top]]
    /\ gpc' = [gpc EXCEPT ![c] = "copy_bottom"]
    /\ UNCHANGED <<sbs, frame_sbs, stream_lock, client_count, mpc, nFrames, gtmp, graw>>
    /\ StreamOnly

\* ... and the lower part; the lock is released
GenCopyBottom(c) ==
    /\ gpc[c] = "copy_bottom"
    /\ gsnap' = [gsnap EXCEPT ![c] = [@ EXCEPT !.bottom = Content(graw[c]).bottom,
                                                !.hud = Content(graw[c]).hud]]
    /\ stream_lock' = "free"
    /\ gpc' = [gpc EXCEPT ![c] = "encode"]
    /\ UNCHANGED <<sbs, frame_sbs, client_count, mpc, nFrames, gtmp, graw>>
    /\ StreamOnly

\* _generate, lines 1221-1234: the frame is encoded and yielded, and the loop
\* goes on ...
GenEncode(c) ==
    /\ gpc[c] = "encode"
    /\ gpc' = [gpc EXCEPT ![c] = "lock"]
    /\ UNCHANGED <<sbs, frame_sbs, stream_lock, client_count, mpc, nFrames, gtmp, graw, gsnap>>
    /\ StreamOnly

\* ... or the client goes away: line 1236, self._client_count -= 1, the load
GenDisconnect(c) ==
    /\ gpc[c] = "encode"
    /\ gtmp' = [gtmp EXCEPT ![c] = client_count]
    /\ gpc' = [gpc EXCEPT ![c] = "dec"]
    /\ UNCHANGED <<sbs, frame_sbs, stream_lock, client_count, mpc, nFrames, graw, gsnap>>
    /\ StreamOnly

\* ... and the store
GenDecrement(c) ==
    /\ gpc[c] = "dec"
    /\ client_count' = gtmp[c] - 1
    /\ gpc' = [gpc EXCEPT ![c] = "gone"]
    /\ UNCHANGED <<sbs, frame_sbs, stream_lock, mpc, nFrames, gtmp, graw, gsnap>>
    /\ StreamOnly

StreamNext ==
    \/ MainProcessTop
    \/ MainProcessBottom
    \/ UpdateFrameTest
    \/ UpdateFrameStore
    \/ UpdateFrameAcquire
    \/ UpdateFrameCopy
    \/ MainDraw
    \/ \E c \in Clients : GenConnect(c)
    \/ \E c \in Clients : GenIncrement(c)
    \/ \E c \in Clients : GenAcquire(c)
    \/ \E c \in Clients : GenFetch(c)
    \/ \E c \in Clients : GenCopyTop(c)
    \/ \E c \in Clients : GenCopyBottom(c)
    \/ \E c \in Clients : GenEncode(c)
    \/ \E c \in Clients : GenDisconnect(c)
    \/ \E c \in Clients : GenDecrement(c)

SpecStreamInit == SpecAppInit /\ aligner.enabled /\ \A side \in Sides : camHasFrame[side]

SpecStream == SpecStreamInit /\ [][StreamNext]_vars

AlignerNext ==
    \/ AlTick
    \/ \E val \in BOOLEAN : AlSetEnabled(val)
    \/ \E epi \in Fits \cup {None}, ph \in Phases \cup {None} : AlUpdate(epi, ph)
    \/ \E pair \in Pairs : AlWarpPair(pair)
    \/ AlForceUpdate
    \/ AlReset

SpecAlignerInit ==
    /\ SpecAppInit
    /\ \A side \in Sides : camHasFrame[side]

SpecAligner == SpecAlignerInit /\ [][AlignerNext]_vars

\* --------------------------------------------------------- camera claims
\* threads that have been started and have not returned from _grab_loop
AliveThreads == {t \in Threads : tpc[t] \in {"loop", "reading", "got", "locked"}}

\* alive threads that can still store into the slot: a frame in hand, or a
\* device handle that is open
WritingThreads ==
    {t \in AliveThreads :
        \/ tpc[t] \in {"got", "locked"}
        \/ (GrabHandle(t) # 0 /\ capOpen[GrabHandle(t)])}

\* C1: a frame object handed out by read_no_copy() keeps the content it had
\* when it was handed out, whatever the acquisition threads do afterwards.
C1_HandedFrameNeverModified ==
    \A r \in Readers : rref[r] # 0 => heap[rref[r]] = rsnap[r]

\* C1 witness: the main loop still holds a frame object while the slot has
\* moved on to a newer one.
C1_Witness ==
    /\ rref["main"] # 0
    /\ frame # 0
    /\ frame # rref["main"]
    /\ heap[frame] > heap[rref["main"]]

\* C2: the lock is held only inside a store or a fetch: never by a thread
\* that is in (or before) its device read, never by a reader that is
\* processing the frame, and whoever holds it can release it by a step of
\* its own, so nobody waits for a capture or for a consumer.
C2_LockHeldOnlyForExchange ==
    /\ \A t \in Threads :
          /\ lock = HeldByThread(t) => (tpc[t] = "locked" /\ ENABLED GrabPublish(t))
          /\ tpc[t] = "locked" => lock = HeldByThread(t)
    /\ \A r \in Readers :
          /\ lock = HeldByReader(r) =>
                /\ rpc[r] \in {"fetch", "copy"}
                /\ ENABLED (ReadNoCopy(r) \/ ReadCopy(r))
          /\ rpc[r] \in {"fetch", "copy"} => lock = HeldByReader(r)
    /\ lock = HeldByStart => (cpc = "warm_locked" /\ ENABLED WarmCheck)
    /\ lock \in {LockFree, HeldByStart}
          \cup {HeldByThread(t) : t \in Threads} \cup {HeldByReader(r) : r \in Readers}

\* C2 witness: a reader is inside its fetch while a thread is in its device
\* read and the other reader is processing a frame.
C2_Witness ==
    /\ lock = HeldByReader("main")
    /\ \E t \in Threads : tpc[t] = "reading"
    /\ rpc["stream"] = "processing"

\* C3: every store into the slot stores the most recent successful capture,
\* and the captures a reader is handed never go back in time.
C3_SlotHoldsLatestCapture ==
    [][ /\ (frame' # frame => SlotSeq' = devSeq')
        /\ SlotSeq' >= SlotSeq
        /\ \A r \in Readers : rsnap'[r] >= rsnap[r] ]_vars

\* C4: at most one acquisition thread is alive and able to write to the slot.
C4_AtMostOneWriter == Cardinality(WritingThreads) <= 1

\* --------------------------------------------------- main loop and aligner claims
\* the group update() replaces as a whole
Group(a) == <<a.result, a.smooth_dy, a.smooth_dtheta, a.warp_l, a.warp_r, a.overlap_mask>>

\* x lies between a and b, ends included
Between(x, a, b) == Min(a, b) <= x /\ x <= Max(a, b)

\* this step is the cycle's call of update()
UpdateCalled == "update" \in {calls'[i] : i \in DOMAIN calls'} /\ pc = "align"

\* the group of aligner a is the one the raw estimate r gives when it is
\* smoothed into the correction (dy0, dtheta0)
ConsistentWith(a, r, dy0, dtheta0) ==
    /\ Between(a.smooth_dy, dy0, r.dy)
    /\ Between(a.smooth_dtheta, dtheta0, r.dtheta)
    /\ r.dy # dy0 => a.smooth_dy # dy0
    /\ r.dtheta # dtheta0 => a.smooth_dtheta # dtheta0
    /\ a.result = [r EXCEPT !.dy = a.smooth_dy, !.dtheta = a.smooth_dtheta]
    /\ a.warp_l = RotationMatrix(a.smooth_dtheta \div 2, a.smooth_dy \div 2)
    /\ a.warp_r = RotationMatrix(-(a.smooth_dtheta \div 2), -(a.smooth_dy \div 2))
    /\ a.overlap_mask = [of_l |-> a.warp_l, of_r |-> a.warp_r]

\* C5: a call of update() either replaces the whole group (estimate, smoothed
\* offset and rotation, both warps, overlap mask) by values that all follow
\* from the new estimate, or, when both methods fail, leaves the group and
\* the converged flag exactly as they were.
C5_UpdateAllOrNothing ==
    [][ UpdateCalled =>
          IF hRaw' = None
          THEN Group(aligner') = Group(aligner) /\ aligner'.converged = aligner.converged
          ELSE ConsistentWith(aligner', hRaw', aligner.smooth_dy, aligner.smooth_dtheta)
      ]_vars

\* C5 witness: an update in which both methods failed has run on an aligner
\* that has a correction.
C5_Witness ==
    /\ pc = "warp"
    /\ calls = <<"needs_update:True", "update">>
    /\ hRaw = None
    /\ HasCorrection(aligner)
    /\ aligner.smooth_dy # 0

\* the interval the claims state: the short one while the aligner is not
\* converged and fewer than 20 updates have run, else the steady-state one
AdaptiveInterval(converged, updates) ==
    IF ~converged /\ updates < rapid_updates THEN rapid_interval ELSE interval_sec

\* C6: the main loop calls update() only right after needs_update() returned
\* true: never on a disabled aligner, and never sooner than the adaptive
\* interval after the previous update() unless force_update() or reset()
\* came in between.
C6_UpdateOnlyWhenDue ==
    [][ UpdateCalled =>
          /\ Len(calls') >= 2
          /\ calls'[Len(calls') - 1] = "needs_update:True"
          /\ calls'[Len(calls')] = "update"
          /\ aligner.enabled
          /\ hLastUpdateAt >= 0 =>
                now - hLastUpdateAt >= AdaptiveInterval(aligner.converged, hUpdates)
      ]_vars

\* C6 witness: an update of a converged aligner has run exactly the
\* steady-state interval after the previous one, nothing forced in between.
C6_Witness ==
    /\ pc = "warp"
    /\ calls = <<"needs_update:True", "update">>
    /\ aligner.converged
    /\ hGap = interval_sec

\* how often name is in the cycle's record
Count(name) == Cardinality({i \in DOMAIN calls : calls[i] = name})

\* the first place of name in the cycle's record
First(name) == CHOOSE i \in DOMAIN calls : calls[i] = name /\ \A j \in 1..(i - 1) : calls[j] # name

\* C7: a cycle that read both frames has called warp_pair() exactly once; if
\* update() ran in it, it ran once, before warp_pair(), on the frames as read
\* from the cameras, and the warp applied is the aligner's current one: the
\* one that update produced when it produced any.
C7_WarpOncePerCycle ==
    (pc = "done" /\ frame_l # "none" /\ frame_r # "none") =>
        /\ Count("warp_pair") = 1
        /\ Count("update") <= 1
        /\ hApplied = WarpPair(aligner, "camL", "camR").applied
        /\ Count("update") = 1 =>
              /\ First("update") < First("warp_pair")
              /\ hArgs = <<"camL", "camR">>
              /\ hRaw # None =>
                    /\ hApplied # None
                    /\ hApplied.warp_l =
                          RotationMatrix(aligner.smooth_dtheta \div 2, aligner.smooth_dy \div 2)

\* C7 witness: a cycle ends in which update() produced an estimate and
\* warp_pair() applied a warp.
C7_Witness ==
    /\ pc = "done"
    /\ Count("update") = 1
    /\ hRaw # None
    /\ hApplied # None

C9_ForcedUpdateIsDue ==
    aligner.enabled => NeedsUpdate(ForceUpdate(aligner), now)

Neutral(a) ==
    /\ a.result.dy = 0 /\ a.result.dtheta = 0 /\ a.result.method = "none"
    /\ a.smooth_dy = 0 /\ a.smooth_dtheta = 0
    /\ a.warp_l = None /\ a.warp_r = None
    /\ a.overlap_mask = None
    /\ ~a.converged
    /\ a.update_count = 0

\* C11: right after enabled = False, and right after reset(), the aligner is
\* neutral and has no correction; and has_correction goes from false to true
\* only in an update() that produced an estimate, so it stays false through
\* re-enabling.
C11_DisableAndResetClear ==
    [][ /\ alOp' \in {"disable", "reset"} =>
              (Neutral(aligner') /\ ~HasCorrection(aligner'))
        /\ (~HasCorrection(aligner) /\ HasCorrection(aligner')) =>
              (alOp' = "update" /\ hRaw' # None)
      ]_vars

\* C11 witness: an aligner that had estimates has been disabled and enabled
\* again, and has no correction.
C11_Witness ==
    /\ alOp = "enable"
    /\ aligner.enabled
    /\ nApplied > 0
    /\ hUpdates = 0
    /\ ~HasCorrection(aligner)
    /\ Neutral(aligner)

\* C12: the aligner becomes converged only when the RMS residual has been
\* below the threshold in at least converge_updates updates since it was last
\* enabled or reset.  (Stated for an enabled aligner all of whose counted
\* updates were made since then.)
C12_ConvergedAfterEnoughGoodUpdates ==
    [][ ( /\ aligner.enabled
          /\ hUpdates' = aligner'.update_count
          /\ ~aligner.converged /\ aligner'.converged ) =>
            hBelow' >= converge_updates ]_vars

\* the four states of the aligner
AlignerState(a) ==
    IF ~a.enabled THEN "disabled"
    ELSE IF ~HasCorrection(a) THEN "estimating"
    ELSE IF ~a.converged THEN "active"
    ELSE "converged"

\* C13: the aligner is always disabled, estimating, active or converged (a
\* converged aligner has a correction), and force_update() on a converged
\* aligner returns it to the active, not converged state.
C13_ForceUpdateReentersActive ==
    [][ /\ aligner'.converged => HasCorrection(aligner')
        /\ (alOp' = "force_update" /\ AlignerState(aligner) = "converged") =>
              AlignerState(aligner') = "active"
      ]_vars

\* C14: when the aligner is disabled or has no correction yet, warp_pair()
\* returns exactly the two frames it was given, with no warp applied.
C14_WarpPairIdentity ==
    (alOp = "warp_pair" /\ (~aligner.enabled \/ ~HasCorrection(aligner))) =>
        /\ alOut.l = alOut.given.l
        /\ alOut.r = alOut.given.r
        /\ alOut.applied = None

\* C14 witness: warp_pair() was called on a disabled aligner that holds warps
\* and gave the frames back.
C14_Witness ==
    /\ alOp = "warp_pair"
    /\ ~aligner.enabled
    /\ HasCorrection(aligner)
    /\ alOut.l = alOut.given.l
    /\ alOut.applied = None

\* the frames and warps the last two warp_pair() calls returned are the same
SameOutput(o1, o2) ==
    /\ o1.l = o2.l
    /\ o1.r = o2.r
    /\ o1.applied = o2.applied

GrabFailed(t) == tpc[t] = "reading" /\ tpc'[t] = "loop"

\* C16: when a device read fails inside the loop, the slot and the frame in it
\* are left as they are, the loop goes on to its next read, and the failure
\* is logged.
C16_FailedGrabSkippedAndLogged ==
    [][ \A t \in Threads : GrabFailed(t) =>
            /\ frame' = frame
            /\ heap' = heap
            /\ tpc'[t] = "loop"
            /\ nPrinted' > nPrinted
      ]_vars

\* start() ran its opening part in this step and the handle it is left with
\* is not an open device with a frame size
OpenFailed == cpc = "idle" /\ cap' # cap /\ ~capOpen'[cap']

\* C17: if the device does not open, or reports a zero width or height after
\* configuration, start() raises: no thread is started, _running is not set
\* and no warm-up is entered.
C17_OpenFailureIsFatal ==
    [][ OpenFailed =>
            /\ cpc' = "idle"
            /\ thread' = thread
            /\ running' = running
      ]_vars

\* start() is inside its warm-up loop
InWarmup == cpc \in {"warmup", "warm_locked"}

\* C18: once the device is open start() can always return: at the head of the
\* warm-up loop the deadline can end the wait whatever the thread, the lock and
\* the slot are doing, and the look at the slot always completes and ends the
\* wait when a frame is there; the return changes nothing else (no error, the
\* source stays running); and a read while the slot is still empty returns
\* none.
C18_StartReturns ==
    [][ /\ cpc = "warmup" => ENABLED WarmTimeout
        /\ cpc = "warm_locked" => (lock = HeldByStart /\ ENABLED WarmCheck)
        /\ (cpc = "warm_locked" /\ cpc' # "warm_locked") =>
              cpc' = IF frame # 0 THEN "idle" ELSE "warmup"
        /\ (InWarmup /\ cpc' = "idle") =>
              (running' = running /\ thread' = thread /\ frame' = frame /\ cap' = cap)
        /\ \A r \in Readers :
              (rpc[r] \in {"fetch", "copy"} /\ rpc'[r] = "processing" /\ frame = 0) =>
                  (rref'[r] = 0 /\ rsnap'[r] = 0)
      ]_vars

\* C18 witness: start() has returned from its warm-up with no frame captured
\* yet, the thread is still reading, and a reader is reading the empty slot.
C18_Witness ==
    /\ cpc = "idle"
    /\ running
    /\ thread # 0
    /\ tpc[thread] \in {"loop", "reading"}
    /\ devSeq = 0
    /\ frame = 0
    /\ \E r \in Readers : rpc[r] \in {"fetch", "copy"}

\* stop() returned in this step
StopReturned == cpc = "join" /\ cpc' = "idle"

\* C19: stop() clears _running first; its join can always end, by the timeout,
\* whatever the thread is doing; and when it returns the device has been
\* released, whether or not the thread had ended: no handle this source
\* opened is still open.
C19_StopReleasesDevice ==
    [][ /\ (cpc = "idle" /\ cpc' = "join") => ~running'
        /\ cpc = "join" => ENABLED StopJoinRelease(TRUE)
        /\ StopReturned =>
              /\ ~running'
              /\ \A h \in Threads : ~capOpen'[h]
      ]_vars

\* a stop() began when the source was already stopped, or was never started:
\* the call before it on this source was not a start()
StopOnStopped == cpc = "join" /\ devCall \in {"none", "release", "release_again"}

\* C20: a stop() on a source that is already stopped or was never started
\* makes no call on the device and leaves the source as it was.
C20_StopIdempotent ==
    [][ (StopOnStopped /\ StopReturned) =>
            /\ devCall' = devCall
            /\ capOpen' = capOpen
            /\ running' = running /\ thread' = thread /\ cap' = cap /\ frame' = frame
      ]_vars

\* the source is not started: never started, or its last stop() has returned
SourceStopped == cpc = "idle" /\ devCall \in {"none", "release", "release_again"}

\* C21: the slot exists only between start() and stop(): a read that completes
\* while the source is not started returns none.
C21_NoFrameOutsideStartStop ==
    [][ \A r \in Readers :
            (SourceStopped /\ rpc[r] \in {"fetch", "copy"} /\ rpc'[r] = "processing") =>
                (rsnap'[r] = 0 /\ rref'[r] = 0)
      ]_vars

\* C22: whenever the aligner has a correction, the left warp holds half of the
\* current smoothed rotation and offset, the right warp exactly the negated
\* halves, and the overlap mask is the one computed from these two warps.
C22_WarpsFollowSmoothed ==
    HasCorrection(aligner) =>
        /\ aligner.warp_l.angle = aligner.smooth_dtheta \div 2
        /\ aligner.warp_l.ty = aligner.smooth_dy \div 2
        /\ aligner.warp_r.angle = -aligner.warp_l.angle
        /\ aligner.warp_r.ty = -aligner.warp_l.ty
        /\ aligner.overlap_mask # None
        /\ aligner.overlap_mask.of_l = aligner.warp_l
        /\ aligner.overlap_mask.of_r = aligner.warp_r

\* C22 witness: the smoothed correction has been changed by a second estimate
\* and is not zero.
C22_Witness ==
    /\ HasCorrection(aligner)
    /\ nApplied = 2
    /\ alOp = "update"
    /\ hRaw # None
    /\ aligner.smooth_dy # 0
    /\ aligner.smooth_dtheta # 0
    /\ aligner.smooth_dy # hRaw.dy

\* -------------------------------------------------- smoothing claims (SpecSmooth)
\* C23: under every base weight in [0, 1] and after any sequence of updates,
\* the raw estimate, the reported estimate and the smoothed correction have an
\* offset within +/- max_correction_px and a rotation within
\* +/- max_correction_rad.
C23_CorrectionWithinMaxima ==
    /\ cfg_smoothing \in 0..1000
    /\ Abs(aligner.smooth_dy) <= max_correction_px
    /\ Abs(aligner.smooth_dtheta) <= max_correction_rad
    /\ Abs(aligner.result.dy) <= max_correction_px
    /\ Abs(aligner.result.dtheta) <= max_correction_rad
    /\ hRaw # None =>
          /\ Abs(hRaw.dy) <= max_correction_px
          /\ Abs(hRaw.dtheta) <= max_correction_rad

\* C23 witness: a fit beyond both maxima has been clamped and smoothed in, on
\* top of an earlier estimate, and the correction sits on the maximum.
C23_Witness ==
    /\ nApplied >= 2
    /\ hRaw # None
    /\ hRaw.method = "epipolar"
    /\ hRaw.dy = max_correction_px
    /\ hRaw.dtheta = -max_correction_rad
    /\ aligner.smooth_dy = max_correction_px

\* C24: under every base weight in [0, 1], the weight a converged aligner gives
\* to the previous smoothed value is at least the weight it would give it
\* while not converged.
C24_ConvergedWeightAtLeastBase ==
    aligner.converged =>
        SmoothingWeight(aligner) >= SmoothingWeight([aligner EXCEPT !.converged = FALSE])

\* -------------------------------------------------- function claims (SpecFn)
\* C25: for every frame size, the overlap mask built for a smoothed correction
\* within the maxima is not empty, and at zero correction it is the whole
\* frame.
C25_OverlapMaskNotEmpty ==
    (fnIn # None /\ fnIn.fn = "_build_warp_matrices") =>
        /\ ( /\ Abs(fnIn.smooth_dy) <= max_correction_px
             /\ Abs(fnIn.smooth_dtheta) <= max_correction_rad ) =>
                fnOut.mask_pixels > 0
        /\ (fnIn.smooth_dy = 0 /\ fnIn.smooth_dtheta = 0) =>
                fnOut.mask_pixels = fnIn.w * fnIn.h

\* the estimate, the smoothed correction, the warps and the mask of aligner a
EstimateGroup(a) ==
    <<a.result, a.smooth_dy, a.smooth_dtheta, a.warp_l, a.warp_r, a.overlap_mask>>

\* the call was update() on frames of one of these kinds
UpdateCalledOn(kinds) == fnIn # None /\ fnIn.fn = "update" /\ fnIn.frames \in kinds

\* C26: in update() a failing gate of the feature-based path is not an error:
\* the phase correlation is used if and only if the feature-based path gave
\* no result, and when neither gives one update() returns with the estimate,
\* the smoothed correction, the warps and the mask as they were; no exception.
C26_GatingFallsThrough ==
    UpdateCalledOn({"pair", "undersized"}) =>
        /\ ~fnOut.raised
        /\ fnOut.epipolar # None =>
              (fnOut.result # None /\ fnOut.result.method = "epipolar")
        /\ (fnOut.epipolar = None /\ fnIn.ph # None /\ PhaseAlign(fnIn.ph, now) # None) =>
              fnOut.result = PhaseAlign(fnIn.ph, now)
        /\ (fnOut.epipolar = None /\ (fnIn.ph = None \/ PhaseAlign(fnIn.ph, now) = None)) =>
              /\ fnOut.result = None
              /\ EstimateGroup(fnOut.after) = EstimateGroup(fnIn.before)
              /\ fnOut.after.converged = fnIn.before.converged

\* C26 witness: the grid left too few matches, the phase correlation was
\* accepted in its place, on an aligner that held an estimate.
C26_Witness ==
    /\ UpdateCalledOn({"pair"})
    /\ fnIn.m.grid < min_matches
    /\ fnIn.m.spatial >= min_matches
    /\ fnOut.epipolar = None
    /\ fnOut.result # None
    /\ fnOut.result.method = "phase"
    /\ HasCorrection(fnIn.before)
    /\ EstimateGroup(fnOut.after) # EstimateGroup(fnIn.before)

\* C27: update() on degenerate frames (empty or undersized) is guarded: no
\* exception leaves update(), and, the features failing, it is a gating
\* failure like any other; with no phase result either, the estimate, the
\* smoothed correction, the warps and the mask stay as they were.
C27_DegenerateFramesGuarded ==
    UpdateCalledOn({"undersized", "empty"}) =>
        /\ ~fnOut.raised
        /\ fnOut.epipolar = None
        /\ fnOut.result = None =>
              EstimateGroup(fnOut.after) = EstimateGroup(fnIn.before)

\* C28: an update() whose estimate comes from the phase correlation reports
\* method "phase" with an infinite RMS residual, and never takes the aligner
\* from not converged to converged.
C28_PhaseNeverConverges ==
    [][ (alOp' = "update" /\ hRaw' # None /\ hRaw'.method = "phase") =>
            /\ hRaw'.rms_residual = Inf
            /\ aligner'.result.method = "phase"
            /\ aligner'.result.rms_residual = Inf
            /\ aligner'.quality = Inf
            /\ aligner'.converged = aligner.converged
      ]_vars

\* C28 witness: the fifth or a later update() took its estimate from the phase
\* correlation and the aligner is still not converged.
C28_Witness ==
    /\ alOp = "update"
    /\ aligner.update_count >= converge_updates
    /\ hRaw # None
    /\ hRaw.method = "phase"
    /\ aligner.result.method = "phase"
    /\ ~aligner.converged

\* every update() so far measured the pair that differs by a vertical shift of
\* exactly 10 px: offset 10 px, no rotation, RMS residual below 3.0 px
ShiftOnly ==
    /\ hSeen # {}
    /\ \A r \in hSeen :
        /\ r # None
        /\ r.dy = ShiftFit.offset
        /\ r.dtheta = 0
        /\ r.rms_residual < converge_rms

\* the smoothed offset is within 0.5 px of the shift and not beyond it, the
\* reported residual is below 3.0 px and the aligner is converged
ShiftConverged(a) ==
    /\ Abs(a.smooth_dy - ShiftFit.offset) <= 500
    /\ a.smooth_dy <= ShiftFit.offset
    /\ a.smooth_dtheta = 0
    /\ a.result.dy = a.smooth_dy
    /\ a.result.rms_residual < converge_rms
    /\ a.converged

C30_TheilSenRecoversLine ==
    (fnIn # None /\ fnIn.fn = "_theil_sen"
        /\ Len(fnIn.x) <= 200
        /\ 100 * Cardinality(fnIn.outliers) < 29 * Len(fnIn.x)
        /\ Cardinality(ValidPairs(fnIn.x)) >= 3) =>
            /\ fnOut.slope =
                 Median([p \in ValidPairs(fnIn.x) |->
                    Quot((fnIn.y[p[2]] - fnIn.y[p[1]]) * 1000, fnIn.x[p[2]] - fnIn.x[p[1]])])
            /\ fnOut.intercept =
                 Median([i \in 1..Len(fnIn.x) |-> fnIn.y[i] - (fnOut.slope * fnIn.x[i]) \div 1000])
            /\ Abs(fnOut.slope - fnIn.line.slope) <= 10000
            /\ Abs(fnOut.intercept - fnIn.line.intercept) <= 1000

\* a force_update(), a reset() or the enabling of the aligner came after an
\* update() of this run, and no update() has run since
ReestimationRequested == hLastUpdateAt = -1 /\ nApplied > 0

\* C31: once an event has requested a re-estimation of an enabled aligner
\* (through force_update() or reset()), the first cycle that reaches lines
\* 130-131 with both frames calls update().
C31_RequestServedNextCycle ==
    [][ (pc = "align" /\ pc' = "warp" /\ aligner.enabled /\ ReestimationRequested)
            => UpdateCalled
      ]_vars

\* the slopes of the drawn pairs of distinct points more than min_sep apart
SampledSlopes ==
    LET valid == {k \in DOMAIN fnIn.drawn :
                    /\ fnIn.drawn[k][1] # fnIn.drawn[k][2]
                    /\ Abs(fnIn.x[fnIn.drawn[k][2]] - fnIn.x[fnIn.drawn[k][1]]) > min_sep}
    IN  [k \in valid |->
            Quot((fnIn.y[fnIn.drawn[k][2]] - fnIn.y[fnIn.drawn[k][1]]) * 1000,
                 fnIn.x[fnIn.drawn[k][2]] - fnIn.x[fnIn.drawn[k][1]])]

\* C32: on more than 200 points _theil_sen completes without error and
\* returns the median of the slopes of the drawn pairs more than min_sep apart
\* in x (0 if they are fewer than 3), with the median of y - slope*x as
\* intercept.
C32_SampledTheilSenCompletes ==
    (fnIn # None /\ fnIn.fn = "_theil_sen" /\ Len(fnIn.x) > 200) =>
        /\ fnOut.raised = "nothing"
        /\ fnOut.slope = IF Cardinality(DOMAIN SampledSlopes) < 3 THEN 0
                         ELSE Median(SampledSlopes)
        /\ fnOut.intercept =
             Median([i \in 1..Len(fnIn.x) |-> fnIn.y[i] - (fnOut.slope * fnIn.x[i]) \div 1000])

\* C33: a converged aligner stays converged through every update(), whatever
\* its outcome, through force_update(), warp_pair() and enabling; only
\* disabling and reset() clear the flag.  While it is converged the heavy
\* smoothing weight and the steady-state interval apply.
C33_ConvergedIsSticky ==
    [][ /\ (aligner.converged /\ alOp' \notin {"disable", "reset"}) => aligner'.converged
        /\ (aligner.converged /\ ~aligner'.converged) =>
              (alOp' \in {"disable", "reset"} /\ ~HasCorrection(aligner'))
        /\ aligner'.converged =>
              /\ SmoothingWeight(aligner') = Min((cfg_smoothing * 25) \div 10, smoothing_cap)
              /\ NeedsUpdate(aligner', now') = (now' - aligner'.last_update >= interval_sec)
      ]_vars

\* C33 witness: an update() of a converged aligner measured a residual at or
\* above the threshold, and the aligner is still converged.
C33_Witness ==
    /\ alOp = "update"
    /\ aligner.converged
    /\ aligner.update_count > converge_updates
    /\ hRaw # None
    /\ hRaw.rms_residual >= converge_rms

\* C34: after any sequence of public operations the two warps and the overlap
\* mask are all absent or all present; has_correction is true exactly when
\* the estimate's method is not "none"; and without a correction the smoothed
\* correction is (0, 0), the estimate is the neutral one and the aligner is
\* not converged.
C34_CorrectionGroupConsistent ==
    /\ \/ (aligner.warp_l = None /\ aligner.warp_r = None /\ aligner.overlap_mask = None)
       \/ (aligner.warp_l # None /\ aligner.warp_r # None /\ aligner.overlap_mask # None)
    /\ HasCorrection(aligner) <=> (aligner.result.method # "none")
    /\ ~HasCorrection(aligner) =>
          /\ aligner.smooth_dy = 0
          /\ aligner.smooth_dtheta = 0
          /\ aligner.result = AlignmentResult0
          /\ ~aligner.converged

\* C34 witness: an aligner that had a correction was reset, enabled or
\* disabled, and updated again, and holds a complete correction.
C34_Witness ==
    /\ nApplied = MaxApplied
    /\ hUpdates = 1
    /\ alOp = "warp_pair"
    /\ HasCorrection(aligner)
    /\ aligner.warp_r # None
    /\ aligner.overlap_mask # None
    /\ aligner.result.method = "phase"

\* C35: in every state of the running application a disabled aligner has no
\* correction and a neutral estimate, and the frames a cycle passes
\* downstream while the aligner is disabled are the cameras' own.
C35_DisabledMeansNoCorrection ==
    ~aligner.enabled =>
        /\ ~HasCorrection(aligner)
        /\ aligner.result = AlignmentResult0
        /\ aligner.smooth_dy = 0
        /\ aligner.smooth_dtheta = 0
        /\ (pc = "done" /\ Count("warp_pair") > 0) =>
              (frame_l = "camL" /\ frame_r = "camR" /\ hApplied = None)

\* C35 witness: the aligner had a correction and was then disabled, and a
\* cycle has passed the camera frames downstream unwarped.
C35_Witness ==
    /\ ~aligner.enabled
    /\ nApplied > 0
    /\ pc = "done"
    /\ Count("warp_pair") = 1
    /\ Count("update_frame") = 1
    /\ frame_l = "camL"
    /\ frame_r = "camR"

\* stop() has returned and start() has not been called since
AfterStop == cpc = "idle" /\ devCall \in {"release", "release_again"}

\* thread t's step is a device read (cap.read() / capture_array() returning)
DeviceRead(t) == tpc[t] = "reading" /\ tpc'[t] # "reading"

\* C36: after stop() has returned, no acquisition thread reads the device and
\* none writes the frame slot.
C36_NoGrabAfterStop ==
    [][ AfterStop => (frame' = frame /\ \A t \in Threads : ~DeviceRead(t)) ]_vars

\* C37: what a client reads is never the buffer the main loop writes to: the
\* reference it copies from is a copy update_frame() made, and the frame it
\* encodes is one whole frame as it was pushed, before anything was drawn on
\* it.
C37_ClientReadsPrivateSnapshot ==
    \A c \in Clients :
        /\ gpc[c] \in {"copy_top", "copy_bottom"} => graw[c].ref = "copy"
        /\ gpc[c] = "encode" =>
              (gsnap[c].top = gsnap[c].bottom /\ ~gsnap[c].hud)

====
